---- MODULE Spec2Model ----
(***************************************************************************)
(* A model of the server core of sqld / libsqlx-server:                    *)
(*   - the per-allocation actor and its connection workers                 *)
(*     (libsqlx-server/src/allocation/mod.rs),                             *)
(*   - the Hrana-over-HTTP pipeline handler and its stream registry        *)
(*     (libsqlx-server/src/hrana/http/mod.rs),                             *)
(*   - the write-proxy connection (libsqlx/src/database/proxy),            *)
(*   - the replication frame endpoint (sqld/src/replication/http.rs).      *)
(* Each subsystem has its own specification over the shared variables;     *)
(* the variables of the other subsystems stay at their initial values.     *)
(***************************************************************************)
EXTENDS Integers, Sequences, FiniteSets, TLC

VARIABLES
    \* ---- allocation actor (allocation/mod.rs) ----
    next_conn_id,       \* Allocation::next_conn_id, a u32 kept as two 16-bit halves
    connections_futs,   \* Allocation::connections_futs: the JoinSet of worker tasks
    spawned,            \* number of tasks spawned so far (names the JoinSet entries)
    \* ---- Hrana stream registry and pipelines (hrana/http) ----
    streams,            \* Server::stream_state: stream id -> handle
    pipelines,          \* handle_pipeline calls: in flight, or the last ones answered
    calls,              \* number of handle_pipeline calls so far
    conn_busy,          \* per stream connection: the request it is executing
    acquired_batons,    \* history: the batons that have acquired a stream
    \* ---- write-proxy connection (database/proxy) ----
    proxy_conns,        \* the WriteProxyConnections of one replica
    primary_frame_no,   \* the primary's last committed frame number
    last_applied_frame_no, \* the replica's last applied frame number
    read_log,           \* local reads executed: the frame numbers they saw
    \* ---- replication frame endpoint (replication/http.rs) ----
    logger,             \* the primary's ReplicationLogger: log and snapshots
    replica,            \* the pulling replica
    response,           \* the last response of POST /v1/replication/frames
    reader,             \* a handle_frames call between two reads of its FrameStream
    \* ---- one connection worker and its handle (allocation/mod.rs) ----
    conn_worker,        \* the task running Connection::run
    exec_chan,          \* the mpsc channel Connection::exec / ConnectionHandle::exec
    conn_handle,        \* the ConnectionHandle: alive, or dropped
    exec_callers,       \* the tasks calling ConnectionHandle::exec
    exec_log,           \* the closures sent so far and their oneshot channels
    \* ---- the loop of Allocation::run and its mailbox (allocation/mod.rs) ----
    inbox,              \* Allocation::inbox: the messages queued, and whether it is closed
    actor_pc,           \* where Allocation::run is: at its select, in an arm, or returned
    \* ---- one Hrana WebSocket connection (hrana/ws/conn.rs) ----
    ws_conn,            \* Conn: session, responses, and whether handle_ws has ended
    ws_out,             \* the ServerMsgs sent on the WebSocket, in order
    ws_log,             \* the client messages handle_msg has handled, in order
    \* ---- WebSocket handshake and host routing (ws/handshake.rs, http/db_factory.rs) ----
    ws_offer,           \* the Sec-WebSocket-Protocol header of the handshake request
    ws_negotiated,      \* per handshake path: what negotiate_version gave
    host_header,        \* the host header of a request
    routed,             \* per entry point: the namespace selected, or the rejection
    \* ---- the SQL text cache of Hrana streams (hrana/stmt.rs) ----
    sql_streams,        \* per stream: idle or checked out, sequence number, cache
    sql_log,            \* per stream: the requests handled on it and their results
    sql_calls,          \* pipelines that acquired a stream so far
    \* ---- stream expiry (Server::run_expire) ----
    exp_streams,        \* per stream: state, sequence number, last-used time, connection
    exp_now,            \* the clock
    exp_evictions,      \* what run_expire evicted, and what it passed over
    exp_acquires,       \* the outcomes acquire gave, by the state of the stream
    \* ---- HTTP client disconnects (handle_pipeline) ----
    disconnected,       \* the pipelines whose client went away while they were in flight
    \* ---- one statement of a request (hrana/stmt.rs) ----
    stmt_in,            \* the proto::Stmt, the stream's SQL cache and the version
    stmt_out            \* what proto_sql_to_sql / proto_stmt_to_query returned

alloc_vars  == <<next_conn_id, connections_futs, spawned>>
stream_vars == <<streams, pipelines, calls, conn_busy, acquired_batons>>
proxy_vars  == <<proxy_conns, primary_frame_no, last_applied_frame_no, read_log>>
repl_vars   == <<logger, replica, response, reader>>
worker_vars == <<conn_worker, exec_chan, conn_handle, exec_callers, exec_log>>
actor_vars  == <<inbox, actor_pc>>
ws_vars     == <<ws_conn, ws_out, ws_log>>
handshake_vars == <<ws_offer, ws_negotiated, host_header, routed>>
sql_vars    == <<sql_streams, sql_log, sql_calls>>
expire_vars == <<exp_streams, exp_now, exp_evictions, exp_acquires>>
cancel_vars == <<disconnected>>
stmt_vars   == <<stmt_in, stmt_out>>
vars == <<alloc_vars, stream_vars, proxy_vars, repl_vars, worker_vars, actor_vars, ws_vars, handshake_vars, sql_vars, expire_vars, cancel_vars, stmt_vars>>

(***************************************************************************)
(* Bounds of the model.                                                    *)
(***************************************************************************)
\* Worker tasks one allocation spawns in a run.
MaxSpawned == 4

(***************************************************************************)
(* ALLOCATION ACTOR                                                        *)
(***************************************************************************)
\* One half of a u32: next_conn_id is a u32 (mod.rs:86) and wraps at 2^32.
\* The value v is kept as [hi, lo] with v = hi * 65536 + lo.
U16Modulus == 65536

U32(hi, lo) == [hi |-> hi, lo |-> lo]
U32Zero == U32(0, 0)
U32Max  == U32(U16Modulus - 1, U16Modulus - 1)

\* u32::wrapping_add(1)
WrappingAdd1(x) ==
    IF x.lo = U16Modulus - 1
    THEN U32((x.hi + 1) % U16Modulus, 0)
    ELSE U32(x.hi, x.lo + 1)

\* AllocConfig::max_conccurent_connection, copied to
\* Allocation::max_concurrent_connections.
max_concurrent_connections == 2

\* Allocation::next_conn_id(): increment with wrap-around and return; the
\* in-use test of the loop is commented out in the source.
NextConnId(cur) == WrappingAdd1(cur)

\* The worker tasks of the JoinSet whose Connection::run has not returned.
LiveWorkers == {w \in connections_futs : w.st = "running"}

\* Allocation::new_conn(): take the next id, open a connection, spawn the
\* worker Connection::run on the JoinSet and hand out its handle.  The
\* number of workers is not compared with max_concurrent_connections.
new_conn ==
    /\ spawned < MaxSpawned
    /\ next_conn_id' = NextConnId(next_conn_id)
    /\ spawned' = spawned + 1
    /\ connections_futs' = connections_futs \cup
          {[task |-> spawned + 1, id |-> NextConnId(next_conn_id), st |-> "running"]}

\* Allocation::run, arm AllocationMessage::NewConnection(ret).
RecvNewConnection ==
    /\ new_conn
    /\ UNCHANGED <<stream_vars, proxy_vars, repl_vars, worker_vars, actor_vars, ws_vars,
                   handshake_vars, sql_vars, expire_vars, cancel_vars, stmt_vars>>

\* Allocation::run, arm AllocationMessage::HranaPipelineReq: the factory
\* closure calls new_conn when the pipeline opens a new stream (no baton);
\* a pipeline that resumes a stream leaves the connection set alone.
RecvHranaPipelineReq ==
    /\ \E fresh \in BOOLEAN :
          IF fresh THEN new_conn ELSE UNCHANGED alloc_vars
    /\ UNCHANGED <<stream_vars, proxy_vars, repl_vars, worker_vars, actor_vars, ws_vars,
                   handshake_vars, sql_vars, expire_vars, cancel_vars, stmt_vars>>

\* Connection::run returns its id: the exit signal fired or the handle was
\* dropped.  The finished task stays in the JoinSet until it is joined.
ConnectionRunReturns ==
    /\ \E w \in LiveWorkers :
          connections_futs' = (connections_futs \ {w}) \cup {[w EXCEPT !.st = "finished"]}
    /\ UNCHANGED <<next_conn_id, spawned, stream_vars, proxy_vars, repl_vars, worker_vars,
                   actor_vars, ws_vars, handshake_vars, sql_vars, expire_vars, cancel_vars,
                   stmt_vars>>

\* A join_next that hands out the result of a finished task and leaves the
\* task in the set.
JoinSetKeep(futs, w) == futs

\* JoinSet::join_next(): the finished task leaves the set.
JoinSetRemove(futs, w) == futs \ {w}

\* Allocation::run, arm connections_futs.join_next(): a finished task is
\* taken out of the JoinSet; nothing else is done with its id.
JoinNext ==
    /\ \E w \in connections_futs :
          /\ w.st = "finished"
          /\ connections_futs' = JoinSetRemove(connections_futs, w)
    /\ UNCHANGED <<next_conn_id, spawned, stream_vars, proxy_vars, repl_vars, worker_vars,
                   actor_vars, ws_vars, handshake_vars, sql_vars, expire_vars, cancel_vars,
                   stmt_vars>>

\* The allocation as constructed (next_conn_id = 0, no worker), and the same
\* allocation late in its life: its first connection (id 1) is still open
\* while 2^32 - 3 later connections have come and gone.
AllocStart ==
    { [next |-> U32Zero, futs |-> {}],
      [next |-> U32(U16Modulus - 1, U16Modulus - 2),
       futs |-> {[task |-> 0, id |-> U32(0, 1), st |-> "running"]}] }

AllocInit ==
    \E s \in AllocStart :
        /\ next_conn_id = s.next
        /\ connections_futs = s.futs
        /\ spawned = 0

(***************************************************************************)
(* Idle values of the subsystems a specification does not exercise.        *)
(***************************************************************************)
AllocIdle ==
    /\ next_conn_id = U32Zero
    /\ connections_futs = {}
    /\ spawned = 0

StreamIdle ==
    /\ streams = <<>>
    /\ pipelines = <<>>
    /\ calls = 0
    /\ conn_busy = <<>>
    /\ acquired_batons = {}

ProxyIdle ==
    /\ proxy_conns = <<>>
    /\ primary_frame_no = 0
    /\ last_applied_frame_no = 0
    /\ read_log = <<>>

ReplIdle ==
    /\ logger = <<>>
    /\ replica = <<>>
    /\ response = <<>>
    /\ reader = <<>>

WorkerIdle ==
    /\ conn_worker = <<>>
    /\ exec_chan = <<>>
    /\ conn_handle = "none"
    /\ exec_callers = <<>>
    /\ exec_log = <<>>

ActorIdle ==
    /\ inbox = <<>>
    /\ actor_pc = "none"

WsIdle ==
    /\ ws_conn = <<>>
    /\ ws_out = <<>>
    /\ ws_log = <<>>

HandshakeIdle ==
    /\ ws_offer = <<>>
    /\ ws_negotiated = <<>>
    /\ host_header = <<>>
    /\ routed = <<>>

SqlIdle ==
    /\ sql_streams = <<>>
    /\ sql_log = <<>>
    /\ sql_calls = 0

ExpireIdle ==
    /\ exp_streams = <<>>
    /\ exp_now = 0
    /\ exp_evictions = {}
    /\ exp_acquires = {}

CancelIdle == disconnected = {}

StmtIdle ==
    /\ stmt_in = <<>>
    /\ stmt_out = <<>>

(***************************************************************************)
(* Specification of the allocation actor.                                  *)
(***************************************************************************)
Init == AllocInit /\ StreamIdle /\ ProxyIdle /\ ReplIdle /\ WorkerIdle /\ ActorIdle /\ WsIdle /\ HandshakeIdle /\ SqlIdle /\ ExpireIdle /\ CancelIdle /\ StmtIdle

Next ==
    \/ RecvNewConnection
    \/ RecvHranaPipelineReq
    \/ ConnectionRunReturns
    \/ JoinNext

Spec == Init /\ [][Next]_vars

\* C1: within one allocation no two live connection workers have the same
\* id, also after next_conn_id has wrapped around.
ConnIdsDistinct ==
    \A w1, w2 \in LiveWorkers : w1.task # w2.task => w1.id # w2.id

\* C2: the number of live connection workers of an allocation never exceeds
\* max_concurrent_connections.
LiveWorkersWithinMax ==
    Cardinality(LiveWorkers) <= max_concurrent_connections

(***************************************************************************)
(* HRANA OVER HTTP: STREAM REGISTRY AND PIPELINE HANDLER                   *)
(***************************************************************************)
\* Streams one server creates in a run.
MaxStreams == 2
\* handle_pipeline calls in a run.
MaxCalls == 3
\* handle_pipeline calls the model keeps at once: those in flight and the
\* last ones answered.
MaxPipelines == 2
\* Requests in one pipeline.
MaxRequests == 2
\* Requests of all the handle_pipeline calls the model keeps at once.
MaxKeptRequests == 3

StreamIds   == 1..MaxStreams
PipelineIds == 1..MaxPipelines

\* The requests of a pipeline, by what executing them gives: a result, or a
\* request-level error (a StmtError such as ARGS_BOTH_POSITIONAL_AND_NAMED).
RequestKinds == {"ok", "stmt_error"}

RECURSIVE SeqsUpTo(_, _)
SeqsUpTo(S, n) ==
    IF n = 0 THEN {<<>>}
    ELSE LET shorter == SeqsUpTo(S, n - 1)
         IN  shorter \cup {Append(s, x) : s \in {q \in shorter : Len(q) = n - 1}, x \in S}

\* PipelineRequestBody::requests
RequestBatches == SeqsUpTo(RequestKinds, MaxRequests)

\* Server::baton_key: the MAC of a baton is computed with it over
\* (stream_id || seq).  A forged baton carries a MAC made without the key.
Mac(sid, seq) == <<"baton_key", sid, seq>>
Baton(sid, seq) == [sid |-> sid, seq |-> seq, mac |-> Mac(sid, seq)]
ForgedBaton(sid, seq) == [sid |-> sid, seq |-> seq, mac |-> <<"other_key", sid, seq>>]
NoBaton == [sid |-> 0, seq |-> 0, mac |-> <<>>]

NoStream == [st |-> "absent", seq |-> 0, conn |-> 0]
NoResp == [kind |-> "none", baton |-> NoBaton, results |-> <<>>, err |-> "none"]
NoPipeline ==
    [pc |-> "unused", baton |-> NoBaton, sid |-> 0, seq0 |-> 0, reqs |-> <<>>,
     idx |-> 1, inflight |-> FALSE, results |-> <<>>, resp |-> NoResp]
ConnIdle == [p |-> 0, i |-> 0, req |-> "none"]

\* stream::acquire with the lookup made before the MAC is checked.
AcquireCheckLookupFirst(baton) ==
    IF baton.sid \notin StreamIds \/ streams[baton.sid].st = "absent" THEN "BatonExpired"
    ELSE IF baton.mac # Mac(baton.sid, baton.seq) THEN "BatonInvalid"
    ELSE IF streams[baton.sid].st = "acquired" THEN "BatonReused"
    ELSE IF streams[baton.sid].seq # baton.seq THEN "BatonReused"
    ELSE "ok"

\* stream::acquire with a baton: the MAC is checked first, then the stream is
\* looked up, then the sequence number is compared; a stream that is checked
\* out is a double use of its baton.
AcquireCheck(baton) ==
    IF baton.mac # Mac(baton.sid, baton.seq) THEN "BatonInvalid"
    ELSE IF baton.sid \notin StreamIds \/ streams[baton.sid].st = "absent" THEN "BatonExpired"
    ELSE IF streams[baton.sid].st = "acquired" THEN "BatonReused"
    ELSE IF streams[baton.sid].seq # baton.seq THEN "BatonReused"
    ELSE "ok"

\* stream::acquire, checkout: the stream leaves the idle set.
Checkout(sid) == [streams EXCEPT ![sid].st = "acquired"]

\* stream::acquire without a baton: a new stream with sequence number 0 on a
\* connection made by mk_conn, checked out to the caller.
CreateStream(sid) ==
    [streams EXCEPT ![sid] = [st |-> "acquired", seq |-> 0, conn |-> sid]]

\* StreamGuard::release: the sequence number is incremented, the stream goes
\* back to the idle set and the baton of the new sequence number is minted.
ReleaseStream(sid) ==
    [streams EXCEPT ![sid].st = "idle", ![sid].seq = streams[sid].seq + 1]

ReleasedBaton(sid) == Baton(sid, streams[sid].seq + 1)

\* Dropping a StreamGuard without release: the stream goes back to the idle
\* set in its current sequence number.
DropGuard(sid) == [streams EXCEPT ![sid].st = "idle"]

\* request::handle: a request-level error is recorded as the result of the
\* request; an error that is not request-level (the connection worker is
\* gone: Error::ConnectionClosed from execute_stmt) is returned as Err.
RequestHandle(kind, conn_closed) ==
    IF conn_closed THEN [ok |-> FALSE, result |-> "none", err |-> "ConnectionClosed"]
    ELSE IF kind = "stmt_error" THEN [ok |-> TRUE, result |-> "error", err |-> "none"]
    ELSE [ok |-> TRUE, result |-> "ok", err |-> "none"]

\* The batons a client can present: those minted so far (release mints the
\* baton of every sequence number from 1 to the stream's current one), and
\* batons it made up itself.
MintedBatons ==
    UNION {{Baton(sid, seq) : seq \in 1..streams[sid].seq} :
              sid \in {s \in StreamIds : streams[s].st # "absent"}}

ForgedBatons == {ForgedBaton(sid, 1) : sid \in StreamIds}

\* handle_pipeline lines 64-68: the guard acquire returned is moved into the
\* spawned task (`async move`), so the stream stays checked out while the
\* task runs.  Were the guard left behind, it would be dropped when
\* handle_pipeline returns.
SpawnLeavingGuard(acquired, sid) == [acquired EXCEPT ![sid].st = "idle"]

SpawnWithGuard(acquired, sid) == acquired

\* An acquire that takes the stream of a rejected baton out of the registry.
FailedAcquireEvicts(baton) ==
    IF baton.sid \in StreamIds THEN [streams EXCEPT ![baton.sid] = NoStream] ELSE streams

\* stream::acquire returning BatonInvalid, BatonExpired or BatonReused: the
\* registry as it leaves it.
FailedAcquire(baton) == streams

\* The requests of the calls kept in the places 1..n other than p.
RECURSIVE KeptRequests(_, _)
KeptRequests(n, p) ==
    IF n = 0 THEN 0
    ELSE (IF n = p THEN 0 ELSE Len(pipelines[n].reqs)) + KeptRequests(n - 1, p)

\* The request bodies a call in place p can bring.
BatchesFor(p) ==
    {reqs \in RequestBatches : Len(reqs) + KeptRequests(MaxPipelines, p) <= MaxKeptRequests}

\* A handle_pipeline call takes the first place that holds no call in flight.
FreePlace(p) ==
    /\ pipelines[p].pc \in {"unused", "done"}
    /\ \A q \in 1..(p - 1) : pipelines[q].pc = "running"

\* handle_pipeline line 62, baton = None: acquire creates the stream, then
\* the task that runs the requests is spawned.
HandlePipelineNew ==
    /\ calls < MaxCalls
    /\ \E p \in PipelineIds, sid \in StreamIds :
       \E reqs \in BatchesFor(p) :
          /\ FreePlace(p)
          /\ streams[sid].st = "absent"
          /\ \A s \in 1..(sid - 1) : streams[s].st # "absent"
          /\ streams' = SpawnWithGuard(CreateStream(sid), sid)
          /\ pipelines' = [pipelines EXCEPT ![p] =
                [NoPipeline EXCEPT !.pc = "running", !.sid = sid, !.reqs = reqs]]
    /\ calls' = calls + 1
    /\ UNCHANGED <<conn_busy, acquired_batons, alloc_vars, proxy_vars, repl_vars, worker_vars,
                   actor_vars, ws_vars, handshake_vars, sql_vars, expire_vars, cancel_vars,
                   stmt_vars>>

\* handle_pipeline line 62, baton = Some: acquire checks the baton; on an
\* error handle_pipeline returns it, nothing is spawned and the request body
\* is dropped.
HandlePipelineBaton ==
    /\ calls < MaxCalls
    /\ \E p \in PipelineIds, baton \in MintedBatons \cup ForgedBatons :
          /\ FreePlace(p)
          /\ LET res == AcquireCheck(baton)
                 seen == streams[baton.sid].seq
             IN  IF res = "ok"
                 THEN /\ streams' = SpawnWithGuard(Checkout(baton.sid), baton.sid)
                      /\ acquired_batons' = acquired_batons \cup {baton}
                      /\ \E reqs \in BatchesFor(p) :
                            pipelines' = [pipelines EXCEPT ![p] =
                               [NoPipeline EXCEPT !.pc = "running", !.baton = baton,
                                   !.sid = baton.sid, !.seq0 = seen, !.reqs = reqs]]
                 ELSE /\ streams' = FailedAcquire(baton)
                      /\ acquired_batons' = acquired_batons
                      /\ pipelines' = [pipelines EXCEPT ![p] =
                            [NoPipeline EXCEPT !.pc = "done", !.baton = baton,
                                !.sid = baton.sid, !.seq0 = seen,
                                !.resp = [NoResp EXCEPT !.kind = "stream_error", !.err = res]]]
    /\ calls' = calls + 1
    /\ UNCHANGED <<conn_busy, alloc_vars, proxy_vars, repl_vars, worker_vars, actor_vars, ws_vars,
                   handshake_vars, sql_vars, expire_vars, cancel_vars, stmt_vars>>

\* The request the loop of the spawned task handles in its i-th iteration:
\* req.requests.into_iter() goes through the requests in input order.
RequestAtReversed(reqs, i) == reqs[Len(reqs) + 1 - i]

RequestAt(reqs, i) == reqs[i]

\* The `?` after request::handle(..).await: the loop goes on exactly when
\* request::handle returned Ok, whatever the result it carries.
LoopStopsOnErrorResult(r) == r.ok /\ r.result = "ok"

LoopContinues(r) == r.ok

\* The spawned task, one iteration of the loop, first half: request::handle
\* is called with the stream guard and submits the request to the
\* connection bound to the stream.
TaskRequestStart ==
    /\ \E p \in PipelineIds :
          LET pl == pipelines[p]
              c  == streams[pl.sid].conn
          IN
          /\ pl.pc = "running"
          /\ ~pl.inflight
          /\ pl.idx <= Len(pl.reqs)
          /\ conn_busy[c] = ConnIdle
          /\ pipelines' = [pipelines EXCEPT ![p].inflight = TRUE]
          /\ conn_busy' = [conn_busy EXCEPT ![c] =
                [p |-> p, i |-> pl.idx, req |-> RequestAt(pl.reqs, pl.idx)]]
    /\ UNCHANGED <<streams, calls, acquired_batons, alloc_vars, proxy_vars, repl_vars,
                   worker_vars, actor_vars, ws_vars, handshake_vars, sql_vars, expire_vars,
                   cancel_vars, stmt_vars>>

\* The spawned task, one iteration of the loop, second half: the awaited
\* request::handle returns.  Ok(result) is pushed to results; Err leaves the
\* async block through `?`, which drops the guard and sends the error.
TaskRequestFinish ==
    /\ \E p \in PipelineIds, conn_closed \in BOOLEAN :
          LET pl == pipelines[p]
              c  == streams[pl.sid].conn
              r  == RequestHandle(conn_busy[c].req, conn_closed)
          IN
          /\ pl.pc = "running"
          /\ pl.inflight
          /\ conn_busy[c].p = p
          /\ conn_busy' = [conn_busy EXCEPT ![c] = ConnIdle]
          /\ IF LoopContinues(r)
             THEN /\ pipelines' = [pipelines EXCEPT ![p].inflight = FALSE,
                                      ![p].idx = pl.idx + 1,
                                      ![p].results = Append(pl.results, r.result)]
                  /\ streams' = streams
             ELSE /\ pipelines' = [pipelines EXCEPT ![p].inflight = FALSE,
                                      ![p].pc = "done",
                                      ![p].resp = [NoResp EXCEPT !.kind = "error",
                                                      !.err = r.err]]
                  /\ streams' = DropGuard(pl.sid)
    /\ UNCHANGED <<calls, acquired_batons, alloc_vars, proxy_vars, repl_vars, worker_vars,
                   actor_vars, ws_vars, handshake_vars, sql_vars, expire_vars, cancel_vars,
                   stmt_vars>>

\* The stream state and the baton of the response once the loop is over:
\* `baton: stream_guard.release()`.
GuardDroppedAtEnd(pl) ==
    [streams |-> DropGuard(pl.sid), baton |-> pl.baton]

GuardAtEnd(pl) ==
    [streams |-> ReleaseStream(pl.sid), baton |-> ReleasedBaton(pl.sid)]

\* The spawned task after the loop: the guard is released and the response
\* with the new baton and the results is sent through ret.
TaskRespond ==
    /\ \E p \in PipelineIds :
          LET pl == pipelines[p]
              g  == GuardAtEnd(pl)
          IN
          /\ pl.pc = "running"
          /\ ~pl.inflight
          /\ pl.idx > Len(pl.reqs)
          /\ streams' = g.streams
          /\ pipelines' = [pipelines EXCEPT ![p].pc = "done",
                              ![p].resp = [NoResp EXCEPT !.kind = "ok",
                                              !.baton = g.baton,
                                              !.results = pl.results]]
    /\ UNCHANGED <<calls, conn_busy, acquired_batons, alloc_vars, proxy_vars, repl_vars,
                   worker_vars, actor_vars, ws_vars, handshake_vars, sql_vars, expire_vars,
                   cancel_vars, stmt_vars>>

\* Server::new: no stream; no pipeline has been handled.
StreamInit ==
    /\ streams = [s \in StreamIds |-> NoStream]
    /\ pipelines = [p \in PipelineIds |-> NoPipeline]
    /\ calls = 0
    /\ conn_busy = [c \in StreamIds |-> ConnIdle]
    /\ acquired_batons = {}

InitStream == AllocIdle /\ StreamInit /\ ProxyIdle /\ ReplIdle /\ WorkerIdle /\ ActorIdle /\ WsIdle /\ HandshakeIdle /\ SqlIdle /\ ExpireIdle /\ CancelIdle /\ StmtIdle

NextStream ==
    \/ HandlePipelineNew
    \/ HandlePipelineBaton
    \/ TaskRequestStart
    \/ TaskRequestFinish
    \/ TaskRespond

SpecStream == InitStream /\ [][NextStream]_vars

\* The pipelines that hold a stream guard: acquire succeeded and the task has
\* neither released nor dropped the guard.
Holders(sid) == {p \in PipelineIds : pipelines[p].pc = "running" /\ pipelines[p].sid = sid}

\* The pipelines whose acquire succeeded.
Acquired(p) == pipelines[p].pc = "running" \/ pipelines[p].resp.kind \in {"ok", "error"}

\* The result request::handle records for a request.
ResultOf(kind) == IF kind = "stmt_error" THEN "error" ELSE "ok"

\* C3 as stated: a baton authenticates exactly one resumption, that is, a
\* baton that has acquired its stream once never acquires it again.
BatonResumesOnce ==
    [][\A p \in PipelineIds :
          (pipelines'[p] # pipelines[p] /\ pipelines'[p].pc = "running"
              /\ pipelines'[p].idx = 1 /\ ~pipelines'[p].inflight
              /\ pipelines'[p].baton # NoBaton)
          => pipelines'[p].baton \notin acquired_batons]_vars

\* C3 as amended: a stream is created with sequence number 0; a release
\* increments the sequence number and mints the baton of the new number;
\* acquire succeeds only with the baton of the stream's current sequence
\* number (the one the most recent release minted); an older baton of a
\* registered stream fails with BatonReused; and no baton is followed by two
\* releases.
BatonResumption ==
    /\ \A p \in PipelineIds :
          LET pl == pipelines[p] IN
          /\ (pl.pc = "running" /\ pl.baton = NoBaton)
                => (pl.seq0 = 0 /\ streams[pl.sid].seq = 0)
          /\ (Acquired(p) /\ pl.baton # NoBaton)
                => (pl.baton = Baton(pl.sid, pl.seq0) /\ pl.baton \in acquired_batons)
          /\ pl.pc = "running"
                => (streams[pl.sid].st = "acquired" /\ streams[pl.sid].seq = pl.seq0)
          /\ pl.resp.kind = "ok"
                => (/\ pl.resp.baton = Baton(pl.sid, pl.seq0 + 1)
                    /\ streams[pl.sid].seq >= pl.seq0 + 1)
          /\ (/\ pl.resp.kind = "stream_error"
              /\ pl.baton.mac = Mac(pl.baton.sid, pl.baton.seq)
              /\ streams[pl.baton.sid].st # "absent"
              /\ pl.baton.seq < pl.seq0)
                => pl.resp.err = "BatonReused"
    /\ \A p, q \in PipelineIds :
          (p # q /\ pipelines[p].resp.kind = "ok" /\ pipelines[q].resp.kind = "ok"
              /\ pipelines[p].sid = pipelines[q].sid)
          => pipelines[p].resp.baton # pipelines[q].resp.baton
    /\ \A b \in acquired_batons : b.seq <= streams[b.sid].seq

\* C3, its case: an older baton of an idle, registered stream was presented
\* after a resumption and was refused with BatonReused.
BatonReusedSeen ==
    \E p \in PipelineIds :
        LET pl == pipelines[p] IN
        /\ pl.resp.kind = "stream_error"
        /\ pl.resp.err = "BatonReused"
        /\ pl.baton = Baton(pl.baton.sid, pl.baton.seq)
        /\ streams[pl.baton.sid].st = "idle"
        /\ pl.baton.seq < streams[pl.baton.sid].seq
        /\ pl.baton \in acquired_batons

\* C4: at every instant at most one pipeline holds the guard of a stream,
\* and a stream is checked out exactly when one pipeline holds its guard.
OneGuardPerStream ==
    \A sid \in StreamIds :
        /\ Cardinality(Holders(sid)) <= 1
        /\ (streams[sid].st = "acquired") <=> (Holders(sid) # {})

\* C4, its case: two pipeline requests presented the same valid baton while
\* the first was still in flight; the first holds the stream, the second was
\* refused.
SameBatonConcurrently ==
    \E p, q \in PipelineIds :
        /\ p # q
        /\ pipelines[p].pc = "running"
        /\ pipelines[p].baton # NoBaton
        /\ pipelines[q].baton = pipelines[p].baton
        /\ pipelines[q].resp.kind = "stream_error"

\* C5: a pipeline executes its requests one at a time, in input order, on
\* the connection bound to its stream: the results so far are those of the
\* first requests, in order; at most the next request is in flight, on the
\* stream's connection; the streams have connections of their own; and a
\* connection executes only requests of the pipeline that holds its stream,
\* never those of a pipeline of another stream.
PipelineInOrder ==
    /\ \A p \in PipelineIds :
          LET pl == pipelines[p] IN
          (pl.pc = "running" \/ pl.resp.kind = "ok") =>
              /\ Len(pl.results) = pl.idx - 1
              /\ pl.idx <= Len(pl.reqs) + 1
              /\ \A i \in 1..Len(pl.results) : pl.results[i] = ResultOf(pl.reqs[i])
              /\ pl.inflight =>
                    conn_busy[streams[pl.sid].conn] =
                        [p |-> p, i |-> pl.idx, req |-> pl.reqs[pl.idx]]
              /\ ~pl.inflight =>
                    \A c \in StreamIds : conn_busy[c].p # p
              /\ pl.resp.kind = "ok" =>
                    (pl.resp.results = pl.results /\ Len(pl.results) = Len(pl.reqs))
    /\ \A s1, s2 \in StreamIds :
          (s1 # s2 /\ streams[s1].st # "absent" /\ streams[s2].st # "absent")
              => streams[s1].conn # streams[s2].conn
    /\ \A c \in StreamIds :
          conn_busy[c] # ConnIdle =>
              LET pl == pipelines[conn_busy[c].p] IN
              /\ pl.pc = "running"
              /\ pl.inflight
              /\ streams[pl.sid].conn = c
              /\ Holders(pl.sid) = {conn_busy[c].p}
              /\ \A q \in PipelineIds :
                    (pipelines[q].pc = "running" /\ pipelines[q].sid # pl.sid)
                        => streams[pipelines[q].sid].conn # c

\* C5, its case: while the pipeline that created one stream has a request
\* in flight on that stream's connection, a pipeline of another stream,
\* created later, has executed two different requests on its own
\* connection and has been answered with their results in input order.
TwoStreamsInterleaved ==
    \E p, q \in PipelineIds :
        /\ p # q
        /\ pipelines[q].pc = "running"
        /\ pipelines[q].baton = NoBaton
        /\ pipelines[q].inflight
        /\ conn_busy[streams[pipelines[q].sid].conn].p = q
        /\ pipelines[p].resp.kind = "ok"
        /\ pipelines[p].sid > pipelines[q].sid
        /\ streams[pipelines[p].sid].conn # streams[pipelines[q].sid].conn
        /\ conn_busy[streams[pipelines[p].sid].conn] = ConnIdle
        /\ Len(pipelines[p].reqs) >= 2
        /\ pipelines[p].reqs[1] # pipelines[p].reqs[2]
        /\ pipelines[p].resp.results = <<ResultOf(pipelines[p].reqs[1]),
                                         ResultOf(pipelines[p].reqs[2])>>

\* C6: a request-level error does not end the pipeline: the response has one
\* result per request, in input order, with the error at the position of
\* the failed request; the stream is released with a new baton; and a
\* pipeline ends without a response body only for an error that is not
\* request-level.
RequestErrorsInPlace ==
    \A p \in PipelineIds :
        LET pl == pipelines[p] IN
        /\ pl.resp.kind = "ok" =>
              /\ Len(pl.resp.results) = Len(pl.reqs)
              /\ \A i \in 1..Len(pl.reqs) :
                    (pl.reqs[i] = "stmt_error") <=> (pl.resp.results[i] = "error")
              /\ pl.resp.baton = Baton(pl.sid, pl.seq0 + 1)
              /\ pl.resp.baton # pl.baton
              /\ streams[pl.sid].seq >= pl.seq0 + 1
        /\ pl.resp.kind = "error" => pl.resp.err = "ConnectionClosed"

\* C6, its case: a pipeline whose first request failed with a request-level
\* error has executed its second request and has been answered.
ErrorThenMore ==
    \E p \in PipelineIds :
        /\ pipelines[p].resp.kind = "ok"
        /\ Len(pipelines[p].reqs) >= 2
        /\ pipelines[p].reqs[1] = "stmt_error"
        /\ pipelines[p].resp.results[1] = "error"
        /\ pipelines[p].resp.results[2] = ResultOf(pipelines[p].reqs[2])

(***************************************************************************)
(* WRITE-PROXY CONNECTION                                                  *)
(***************************************************************************)
\* Write-proxy connections of one replica.
MaxProxyConns == 1
\* Frames the primary commits in a run.
MaxFrameNo == 3

ProxyConnIds == 1..MaxProxyConns
\* Programs by what they do: read-only, write, mixed (reads and writes),
\* and the statements that open and close a transaction.
Programs == {"read", "write", "mixed", "begin", "commit", "rollback"}

\* Program::is_read_only
IsReadOnly(prog) == prog = "read"

\* read_log: the last program executed on the local replica, with the state
\* the connection was in.
NoRead ==
    [wrote |-> 0, applied |-> 0, waited |-> FALSE, done |-> FALSE,
     prog |-> "none", state |-> "none"]
\* result: what the caller of the last proxied program received.
ClosedConn ==
    [open |-> FALSE, state |-> "Init", last_seen |-> 0, cb |-> "none",
     pc |-> "idle", prog |-> "none", wrote |-> 0, result |-> "none"]

\* WriteProxyDatabase::connect: the new connection gets the database's
\* wait_frame_no_cb and the default state (Init, no frame seen).
ConnectWithoutCallback ==
    [ClosedConn EXCEPT !.open = TRUE, !.cb = "noop"]

\* A connection whose state is not the default.
ConnectInTransaction ==
    [ClosedConn EXCEPT !.open = TRUE, !.state = "TxnOnPrimary", !.cb = "wait_frame_no_cb"]

Connect ==
    [ClosedConn EXCEPT !.open = TRUE, !.state = "Init", !.cb = "wait_frame_no_cb"]

\* wait_frame_no_cb(n) returns once the replica has applied frame n.
WaitFrameNoReturns(cb, n) ==
    IF cb = "wait_frame_no_cb" THEN last_applied_frame_no >= n ELSE TRUE

\* Routing rule 1: a read-only program outside a primary-owned transaction
\* is executed locally.
IsLocalIgnoringTxn(conn, prog) == IsReadOnly(prog)

IsLocal(conn, prog) == IsReadOnly(prog) /\ conn.state = "Init"

\* Database::connect on the write-proxy database.
ProxyConnect ==
    /\ \E c \in ProxyConnIds :
          /\ ~proxy_conns[c].open
          /\ proxy_conns' = [proxy_conns EXCEPT ![c] = Connect]
    /\ UNCHANGED <<primary_frame_no, last_applied_frame_no, read_log,
                   alloc_vars, stream_vars, repl_vars, worker_vars, actor_vars, ws_vars,
                   handshake_vars, sql_vars, expire_vars, cancel_vars, stmt_vars>>

\* execute(program): a local program waits for the last frame seen from the
\* primary if the replica has not applied it yet, else it runs at once; any
\* other program is sent to the primary as a ProxyRequest.
ProxyExecute ==
    /\ \E c \in ProxyConnIds, prog \in Programs :
          LET conn == proxy_conns[c] IN
          /\ conn.open
          /\ conn.pc = "idle"
          /\ prog \in {"commit", "rollback"} => conn.state = "TxnOnPrimary"
          /\ prog = "begin" => conn.state = "Init"
          /\ IF IsLocal(conn, prog)
             THEN IF conn.last_seen > last_applied_frame_no
                  THEN /\ proxy_conns' = [proxy_conns EXCEPT ![c].pc = "wait",
                                                              ![c].prog = prog]
                       /\ read_log' = read_log
                  ELSE /\ proxy_conns' = proxy_conns
                       /\ read_log' = [read_log EXCEPT ![c] =
                             [wrote |-> conn.wrote, applied |-> last_applied_frame_no,
                              waited |-> FALSE, done |-> TRUE,
                              prog |-> prog, state |-> conn.state]]
             ELSE /\ proxy_conns' = [proxy_conns EXCEPT ![c].pc = "proxy",
                                                         ![c].prog = prog,
                                                         ![c].result = "none"]
                  /\ read_log' = read_log
    /\ UNCHANGED <<primary_frame_no, last_applied_frame_no, alloc_vars, stream_vars, repl_vars,
                   worker_vars, actor_vars, ws_vars, handshake_vars, sql_vars, expire_vars,
                   cancel_vars, stmt_vars>>

\* wait_frame_no_cb returns and the local program runs on the replica.
ProxyWaitReturns ==
    /\ \E c \in ProxyConnIds :
          LET conn == proxy_conns[c] IN
          /\ conn.open
          /\ conn.pc = "wait"
          /\ WaitFrameNoReturns(conn.cb, conn.last_seen)
          /\ proxy_conns' = [proxy_conns EXCEPT ![c].pc = "idle", ![c].prog = "none"]
          /\ read_log' = [read_log EXCEPT ![c] =
                [wrote |-> conn.wrote, applied |-> last_applied_frame_no,
                 waited |-> TRUE, done |-> TRUE,
                 prog |-> conn.prog, state |-> conn.state]]
    /\ UNCHANGED <<primary_frame_no, last_applied_frame_no, alloc_vars, stream_vars, repl_vars,
                   worker_vars, actor_vars, ws_vars, handshake_vars, sql_vars, expire_vars,
                   cancel_vars, stmt_vars>>

\* The primary runs the proxied program and answers with a ProxyResponse.  A
\* write outside a transaction and a commit end in a commit frame, whose
\* number the response carries; begin opens a transaction on the primary,
\* commit closes it.
ProxyResponse ==
    /\ \E c \in ProxyConnIds :
          LET conn == proxy_conns[c]
              commits == \/ (conn.prog \in {"write", "mixed"} /\ conn.state = "Init")
                         \/ conn.prog = "commit"
              n == primary_frame_no + 1
              state == CASE conn.prog = "begin"  -> "TxnOnPrimary"
                         [] conn.prog \in {"commit", "rollback"} -> "Init"
                         [] OTHER -> conn.state
          IN
          /\ conn.open
          /\ conn.pc = "proxy"
          /\ commits => primary_frame_no < MaxFrameNo
          /\ primary_frame_no' = IF commits THEN n ELSE primary_frame_no
          /\ proxy_conns' = [proxy_conns EXCEPT
                ![c].pc = "idle", ![c].prog = "none", ![c].state = state,
                ![c].result = "ok",
                ![c].last_seen = IF commits /\ n > conn.last_seen THEN n ELSE conn.last_seen,
                ![c].wrote = IF commits THEN n ELSE conn.wrote]
    /\ UNCHANGED <<last_applied_frame_no, read_log, alloc_vars, stream_vars, repl_vars,
                   worker_vars, actor_vars, ws_vars, handshake_vars, sql_vars, expire_vars,
                   cancel_vars, stmt_vars>>

\* The state of a connection whose proxied request timed out, were the
\* state kept.
StateKeptAfterTimeout(conn) == conn.state

\* The state of a connection whose proxied request timed out.
StateAfterTimeout(conn) == "Init"

\* No ProxyResponse arrives within proxy_request_timeout: the caller gets
\* TransactionTimeout and the connection goes back to Init; the request is
\* dropped, not sent again.
ProxyTimeout ==
    /\ \E c \in ProxyConnIds :
          LET conn == proxy_conns[c] IN
          /\ conn.open
          /\ conn.pc = "proxy"
          /\ proxy_conns' = [proxy_conns EXCEPT
                ![c].pc = "idle", ![c].prog = "none",
                ![c].state = StateAfterTimeout(conn),
                ![c].result = "TransactionTimeout"]
    /\ UNCHANGED <<primary_frame_no, last_applied_frame_no, read_log, alloc_vars,
                   stream_vars, repl_vars, worker_vars, actor_vars, ws_vars,
                   handshake_vars, sql_vars, expire_vars, cancel_vars, stmt_vars>>

\* Another client of the primary commits a write.
PrimaryCommit ==
    /\ primary_frame_no < MaxFrameNo
    /\ primary_frame_no' = primary_frame_no + 1
    /\ UNCHANGED <<proxy_conns, last_applied_frame_no, read_log,
                   alloc_vars, stream_vars, repl_vars, worker_vars, actor_vars, ws_vars,
                   handshake_vars, sql_vars, expire_vars, cancel_vars, stmt_vars>>

\* The replication injector applies the next frame of the primary.
InjectorApply ==
    /\ last_applied_frame_no < primary_frame_no
    /\ last_applied_frame_no' = last_applied_frame_no + 1
    /\ UNCHANGED <<proxy_conns, primary_frame_no, read_log, alloc_vars, stream_vars, repl_vars,
                   worker_vars, actor_vars, ws_vars, handshake_vars, sql_vars, expire_vars,
                   cancel_vars, stmt_vars>>

ProxyInit ==
    /\ proxy_conns = [c \in ProxyConnIds |-> ClosedConn]
    /\ primary_frame_no = 0
    /\ last_applied_frame_no = 0
    /\ read_log = [c \in ProxyConnIds |-> NoRead]

InitProxy == AllocIdle /\ StreamIdle /\ ProxyInit /\ ReplIdle /\ WorkerIdle /\ ActorIdle /\ WsIdle /\ HandshakeIdle /\ SqlIdle /\ ExpireIdle /\ CancelIdle /\ StmtIdle

NextProxy ==
    \/ ProxyConnect
    \/ ProxyExecute
    \/ ProxyWaitReturns
    \/ ProxyResponse
    \/ ProxyTimeout
    \/ PrimaryCommit
    \/ InjectorApply

SpecProxy == InitProxy /\ [][NextProxy]_vars

\* C7: read-your-writes: a read-only program executed locally on a
\* write-proxy connection runs on a replica that has applied the commit
\* frame of every proxied write completed before on that connection.
ReadYourWrites ==
    \A c \in ProxyConnIds :
        read_log[c].done => read_log[c].applied >= read_log[c].wrote

\* C7, its case: a local read that followed a proxied write had to wait for
\* the injector before it ran.
ReadWaitedForWrite ==
    \E c \in ProxyConnIds :
        /\ read_log[c].done
        /\ read_log[c].waited
        /\ read_log[c].wrote >= 1
        /\ read_log[c].applied >= read_log[c].wrote

(***************************************************************************)
(* REPLICATION FRAME ENDPOINT: POST /v1/replication/frames                 *)
(***************************************************************************)
\* handle_frames: const MAX_FRAMES_IN_SINGLE_RESPONSE
MAX_FRAMES_IN_SINGLE_RESPONSE == 256

\* The primary's tail, its compaction points and the replica's position are
\* drawn from the frame numbers 0..MaxLowFrame and from those up to
\* MaxOverLimit past MAX_FRAMES_IN_SINGLE_RESPONSE.
MaxLowFrame == 1
MaxOverLimit == 1
\* Snapshot files the initial primary holds; one more compaction may follow.
MaxSnapshots == 1

FrameMarks ==
    (0..MaxLowFrame) \cup
    ((MAX_FRAMES_IN_SINGLE_RESPONSE - 1)..(MAX_FRAMES_IN_SINGLE_RESPONSE + MaxOverLimit))

Max(a, b) == IF a >= b THEN a ELSE b

\* The frame numbers first..last, in order.
FrameRange(first, last) ==
    IF last < first THEN <<>> ELSE [i \in 1..(last - first + 1) |-> first + i - 1]

\* The snapshots that compactions at the frame numbers `cuts` leave: each
\* covers the frames after the previous compaction up to its own.
SnapshotsOf(cuts) ==
    {[first |-> IF {d \in cuts : d < c} = {}
                THEN 1
                ELSE (CHOOSE d \in cuts : d < c /\ \A e \in cuts : e < c => e <= d) + 1,
      last |-> c] : c \in cuts}

MaxOf(S) == CHOOSE x \in S : \A y \in S : y <= x

\* A primary with frames 1..tail, compacted at `cuts`.
Logger(tail, cuts) ==
    [tail |-> tail,
     log_start |-> IF cuts = {} THEN 1 ELSE MaxOf(cuts) + 1,
     snapshots |-> SnapshotsOf(cuts)]

\* FrameStream::new: max_available_frame_no is the tail of the log when the
\* stream is opened.
MaxAvailableFrameNo(lg) == lg.tail

\* FrameStream::next after frame `current`: the next frame of the log;
\* SnapshotRequired when that frame precedes the compaction horizon; an
\* error when the log cannot be read.
FrameStreamNext(lg, current, io_error) ==
    IF io_error THEN [kind |-> "Error", frame_no |-> 0]
    ELSE IF current + 1 < lg.log_start THEN [kind |-> "SnapshotRequired", frame_no |-> 0]
    ELSE IF current + 1 > lg.tail THEN [kind |-> "None", frame_no |-> 0]
    ELSE [kind |-> "Frame", frame_no |-> current + 1]

\* What can go wrong with a snapshot file: get_snapshot_file fails, or a
\* frame of the file cannot be read or decoded.
SnapshotFaults == {"none", "lookup_err", "corrupt"}

\* ReplicationLogger::get_snapshot_file(from): Ok(Some) with the snapshot
\* that holds `from`, Ok(None) when no snapshot holds it, or Err.
GetSnapshotFile(lg, from, fault) ==
    LET found == {s \in lg.snapshots : s.first <= from /\ from <= s.last} IN
    IF fault = "lookup_err" THEN [kind |-> "Err", first |-> 0, last |-> 0]
    ELSE IF found = {} THEN [kind |-> "None", first |-> 0, last |-> 0]
    ELSE LET s == CHOOSE s \in found : TRUE
         IN  [kind |-> "Some", first |-> s.first, last |-> s.last]

\* load_snapshot(logger, from): all the frames of the snapshot file from
\* `from` on, however many.  Anything but Ok(Some(snapshot)) from
\* get_snapshot_file, its Err included, gives Ok with no frames; a frame
\* that cannot be read or decoded gives Err.
LoadSnapshot(lg, from, fault) ==
    LET snapshot == GetSnapshotFile(lg, from, fault) IN
    IF snapshot.kind # "Some" THEN [kind |-> "Ok", frames |-> <<>>]
    ELSE IF fault = "corrupt" THEN [kind |-> "Err", frames |-> <<>>]
    ELSE [kind |-> "Ok", frames |-> FrameRange(from, snapshot.last)]

\* handle_frames line 144: no frame at or after next_offset.
NoFramesAvailable(max_available_frame_no, next_offset) ==
    max_available_frame_no < next_offset

\* handle_frames: `std::cmp::max(next_offset, 1)`, frame number 0 is never
\* valid.
NextOffset(req_offset) == Max(req_offset, 1)

\* handle_frames line 138: the frame the stream is opened after.
CurrentFrameNoSkipping(next_offset) == next_offset

CurrentFrameNo(next_offset) == next_offset - 1

\* A response: its status and frames, whether the frames are those of the
\* log or of a snapshot, the offset served, the compaction horizon when the
\* request arrived (horizon) and when it was answered (log_start), the fault
\* of the snapshot file it met, and whether the replica has handled it.
NoResponse ==
    [status |-> 0, frames |-> <<>>, source |-> "none", offset |-> 0, horizon |-> 0,
     log_start |-> 0, fault |-> "none", applied |-> FALSE]

\* handle_frames between two awaits: where it is, and its local variables.
NoReader ==
    [pc |-> "idle", next_offset |-> 0, current |-> 0, max_available |-> 0,
     frames |-> <<>>, iterations |-> 0, horizon |-> 0]

\* handle_frames after its loop (lines 185-195): 204 when no frame was
\* collected, else 200 with the frames.
LoopResponse(rd, frames, source) ==
    IF frames = <<>>
    THEN [NoResponse EXCEPT !.status = 204, !.offset = rd.next_offset,
                            !.horizon = rd.horizon, !.log_start = logger.log_start]
    ELSE [NoResponse EXCEPT !.status = 200, !.offset = rd.next_offset,
                            !.horizon = rd.horizon, !.log_start = logger.log_start,
                            !.frames = frames, !.source = source]

\* handle_frames up to its loop (lines 116-151): authentication, the body,
\* FrameStream::new, and the 204 when no frame is available.
BeginFrames(authorized, well_formed, req_offset) ==
    LET next_offset == NextOffset(req_offset)
        max_available == MaxAvailableFrameNo(logger)
    IN  IF ~authorized
        THEN /\ response' = [NoResponse EXCEPT !.status = 401]
             /\ reader' = [NoReader EXCEPT !.pc = "done"]
        ELSE IF ~well_formed
        THEN /\ response' = [NoResponse EXCEPT !.status = 400]
             /\ reader' = [NoReader EXCEPT !.pc = "done"]
        ELSE IF NoFramesAvailable(max_available, next_offset)
        THEN /\ response' = [NoResponse EXCEPT !.status = 204,
                                 !.offset = next_offset,
                                 !.horizon = logger.log_start,
                                 !.log_start = logger.log_start]
             /\ reader' = [NoReader EXCEPT !.pc = "done"]
        ELSE /\ response' = NoResponse
             /\ reader' = [NoReader EXCEPT !.pc = "reading",
                               !.next_offset = next_offset,
                               !.current = CurrentFrameNo(next_offset),
                               !.max_available = max_available,
                               !.horizon = logger.log_start]

\* One iteration of the loop (lines 152-183): frame_stream.next() is
\* awaited and reads the log as it is now, after whatever compaction ran
\* since the previous read.  The iteration pushes the frame and goes on, or
\* ends the loop, after which the response is built: with the frames read so
\* far, or, at SnapshotRequired with no frame read, with those of
\* load_snapshot, whose Err is a 500.
FramesIteration ==
    /\ reader.pc = "reading"
    /\ \E io_error \in BOOLEAN, fault \in SnapshotFaults :
          LET item == FrameStreamNext(logger, reader.current, io_error)
              pushed == Append(reader.frames, item.frame_no)
              done == [reader EXCEPT !.pc = "done"]
              failed == [NoResponse EXCEPT !.status = 500,
                                           !.offset = reader.next_offset,
                                           !.horizon = reader.horizon,
                                           !.log_start = logger.log_start]
          IN  CASE item.kind = "Frame" ->
                      /\ fault = "none"
                      /\ IF reader.max_available <= item.frame_no
                            \/ reader.iterations + 1 = MAX_FRAMES_IN_SINGLE_RESPONSE
                         THEN /\ response' = LoopResponse(reader, pushed, "log")
                              /\ reader' = [done EXCEPT !.frames = pushed,
                                                        !.current = item.frame_no]
                         ELSE /\ response' = response
                              /\ reader' = [reader EXCEPT !.frames = pushed,
                                               !.current = item.frame_no,
                                               !.iterations = @ + 1]
                [] item.kind = "SnapshotRequired" ->
                      /\ IF reader.frames = <<>>
                         THEN LET snapshot == LoadSnapshot(logger, reader.next_offset, fault)
                              IN  response' =
                                     IF snapshot.kind = "Err"
                                     THEN [failed EXCEPT !.fault = fault]
                                     ELSE [LoopResponse(reader, snapshot.frames, "snapshot")
                                              EXCEPT !.fault = fault]
                         ELSE /\ fault = "none"
                              /\ response' = LoopResponse(reader, reader.frames, "log")
                      /\ reader' = done
                [] item.kind = "Error" ->
                      /\ fault = "none"
                      /\ response' = failed
                      /\ reader' = done
                [] OTHER ->
                      /\ fault = "none"
                      /\ response' = LoopResponse(reader, reader.frames, "log")
                      /\ reader' = done
    /\ UNCHANGED <<logger, replica, alloc_vars, stream_vars, proxy_vars, worker_vars, actor_vars,
                   ws_vars, handshake_vars, sql_vars, expire_vars, cancel_vars, stmt_vars>>

\* The replica posts its next_offset, and handle_frames runs up to its loop.
RequestFrames ==
    /\ replica.st = "pulling"
    /\ reader.pc = "idle"
    /\ \E authorized \in BOOLEAN, well_formed \in BOOLEAN :
          BeginFrames(authorized, well_formed, replica.next_offset)
    /\ replica' = [replica EXCEPT !.st = "awaiting"]
    /\ UNCHANGED <<logger, alloc_vars, stream_vars, proxy_vars, worker_vars, actor_vars,
                   ws_vars, handshake_vars, sql_vars, expire_vars, cancel_vars, stmt_vars>>

\* The highest frame number among the frames of a response.
LastFrameNo(frames) == MaxOf({frames[i] : i \in 1..Len(frames)})

\* The replica handles the response handle_frames returned: the frames of a
\* 200 are applied in order and next_offset becomes last_applied + 1; a 204
\* ends the pull; after any other status the replica tries again.
ReplicaHandleResponse ==
    /\ replica.st = "awaiting"
    /\ reader.pc = "done"
    /\ response' = [response EXCEPT !.applied = TRUE]
    /\ reader' = NoReader
    /\ replica' =
          CASE response.status = 200 ->
                  [replica EXCEPT !.st = "pulling",
                      !.last_applied = LastFrameNo(response.frames),
                      !.next_offset = LastFrameNo(response.frames) + 1,
                      !.via_snapshot = @ \/ response.source = "snapshot"]
            [] response.status = 204 -> [replica EXCEPT !.st = "caught_up"]
            [] OTHER -> [replica EXCEPT !.st = "pulling"]
    /\ UNCHANGED <<logger, alloc_vars, stream_vars, proxy_vars, worker_vars, actor_vars,
                   ws_vars, handshake_vars, sql_vars, expire_vars, cancel_vars, stmt_vars>>

\* Compaction: the log is frozen, a snapshot of its frames is written and
\* the log is truncated.
Compact ==
    /\ logger.log_start <= logger.tail
    /\ Cardinality(logger.snapshots) <= MaxSnapshots
    /\ logger' = [logger EXCEPT
          !.snapshots = @ \cup {[first |-> logger.log_start, last |-> logger.tail]},
          !.log_start = logger.tail + 1]
    /\ UNCHANGED <<replica, response, reader, alloc_vars, stream_vars, proxy_vars, worker_vars,
                   actor_vars, ws_vars, handshake_vars, sql_vars, expire_vars, cancel_vars,
                   stmt_vars>>

\* A primary whose tail is fixed, with up to MaxSnapshots compactions behind
\* it, and a replica that has applied some prefix of its frames; a replica
\* that has applied nothing may start from offset 0.  The primary compacts
\* while the replica pulls, also between two reads of one request.
ReplInit ==
    /\ \E tail \in FrameMarks :
       \E cuts \in {c \in SUBSET (FrameMarks \cap (1..tail)) : Cardinality(c) <= MaxSnapshots} :
          logger = Logger(tail, cuts)
    /\ \E applied \in FrameMarks, from_zero \in BOOLEAN :
          /\ applied <= logger.tail
          /\ from_zero => applied = 0
          /\ replica = [st |-> "pulling", last_applied |-> applied,
                        next_offset |-> IF from_zero THEN 0 ELSE applied + 1,
                        start |-> applied, via_snapshot |-> FALSE]
    /\ response = NoResponse
    /\ reader = NoReader

InitRepl == AllocIdle /\ StreamIdle /\ ProxyIdle /\ ReplInit /\ WorkerIdle /\ ActorIdle /\ WsIdle /\ HandshakeIdle /\ SqlIdle /\ ExpireIdle /\ CancelIdle /\ StmtIdle

NextRepl ==
    \/ RequestFrames
    \/ FramesIteration
    \/ ReplicaHandleResponse
    \/ Compact

SpecRepl == InitRepl /\ [][NextRepl]_vars

\* C8: replica convergence: with the primary's tail fixed, a replica that
\* has pulled until it received 204 has applied every frame up to the tail.
ReplicaConverges ==
    replica.st = "caught_up" => replica.last_applied = logger.tail

\* A replica whose 204 did not come from a failed snapshot lookup has
\* applied every frame up to the tail.
ConvergesUnlessLookupFailed ==
    (replica.st = "caught_up" /\ response.fault # "lookup_err") =>
        replica.last_applied = logger.tail

\* The snapshot boundary a request at `offset` is below: the last frame of
\* the snapshot that holds the offset.
BoundaryOf(offset) == (CHOOSE s \in logger.snapshots : s.first <= offset /\ offset <= s.last).last

\* C9: a request at an offset that precedes the compaction horizon is
\* answered with a 200 that carries the frames of the snapshot, never with a
\* 204 or an error, and applying it moves the replica to the snapshot
\* boundary or beyond.
SnapshotServedBelowHorizon ==
    response.offset < response.horizon =>
        /\ response.status = 200
        /\ response.source = "snapshot"
        /\ {response.frames[i] : i \in 1..Len(response.frames)} =
              response.offset..BoundaryOf(response.offset)
        /\ response.applied =>
              /\ replica.last_applied >= BoundaryOf(response.offset)
              /\ replica.next_offset = replica.last_applied + 1

\* A request below the horizon for which the log and the snapshot file are
\* read without a fault is answered with the snapshot's frames.
SnapshotServedUnlessFault ==
    (response.fault = "none" /\ response.status \in {200, 204}) =>
        SnapshotServedBelowHorizon

\* C10: every 200 response carries at most MAX_FRAMES_IN_SINGLE_RESPONSE
\* frames, from the log or from a snapshot.
AtMostMaxFrames ==
    response.status = 200 => Len(response.frames) <= MAX_FRAMES_IN_SINGLE_RESPONSE

(***************************************************************************)
(* handle_frames READING THE LOG WHILE THE PRIMARY APPENDS AND COMPACTS     *)
(***************************************************************************)
\* Frames the primary appends in a run.
MaxTail == 3

\* A request arrives at the endpoint of a primary no replica is modelled of.
FramesBegin ==
    /\ reader.pc = "idle"
    /\ \E authorized \in BOOLEAN, well_formed \in BOOLEAN, req_offset \in 0..(MaxTail + 1) :
          BeginFrames(authorized, well_formed, req_offset)
    /\ UNCHANGED <<logger, replica, alloc_vars, stream_vars, proxy_vars, worker_vars, actor_vars,
                   ws_vars, handshake_vars, sql_vars, expire_vars, cancel_vars, stmt_vars>>

\* The response has been sent; the endpoint takes the next request.
FramesReturn ==
    /\ reader.pc = "done"
    /\ reader' = NoReader
    /\ UNCHANGED <<logger, replica, response, alloc_vars, stream_vars, proxy_vars, worker_vars,
                   actor_vars, ws_vars, handshake_vars, sql_vars, expire_vars, cancel_vars,
                   stmt_vars>>

\* append(frame): the primary commits the frame after its tail.
LoggerAppend ==
    /\ logger.tail < MaxTail
    /\ logger' = [logger EXCEPT !.tail = @ + 1]
    /\ UNCHANGED <<replica, response, reader, alloc_vars, stream_vars, proxy_vars, worker_vars,
                   actor_vars, ws_vars, handshake_vars, sql_vars, expire_vars, cancel_vars,
                   stmt_vars>>

\* A primary with an empty log; no request has been handled.
FramesInit ==
    /\ logger = Logger(0, {})
    /\ replica = <<>>
    /\ response = NoResponse
    /\ reader = NoReader

InitFrames == AllocIdle /\ StreamIdle /\ ProxyIdle /\ FramesInit /\ WorkerIdle /\ ActorIdle /\ WsIdle /\ HandshakeIdle /\ SqlIdle /\ ExpireIdle /\ CancelIdle /\ StmtIdle

NextFrames ==
    \/ FramesBegin
    \/ FramesIteration
    \/ FramesReturn
    \/ LoggerAppend
    \/ Compact

SpecFrames == InitFrames /\ [][NextFrames]_vars

\* The frame numbers stream_from can return on the primary.
VisibleFrames(lg) ==
    {n \in 1..lg.tail : FrameStreamNext(lg, n - 1, FALSE).kind = "Frame"}

\* The frame numbers the snapshots hold.
SnapshotFrames(lg) == UNION {s.first..s.last : s \in lg.snapshots}

\* f is the run of consecutive frame numbers that starts at `first`.
ConsecutiveFrom(f, first) == \A i \in 1..Len(f) : f[i] = first + i - 1

\* C11: frame contiguity.  The visible frame numbers are 1..tail minus the
\* compacted prefix, which the snapshots hold; reading at an offset in the
\* prefix gives SnapshotRequired; and the frames read from the log, and those
\* of a log-served 200, are consecutive from the requested offset, whatever
\* appends and compactions happen between two reads.
FrameContiguity ==
    /\ \E boundary \in 0..logger.tail :
          /\ VisibleFrames(logger) = (boundary + 1)..logger.tail
          /\ SnapshotFrames(logger) = 1..boundary
          /\ \A n \in 1..boundary :
                FrameStreamNext(logger, n - 1, FALSE).kind = "SnapshotRequired"
    /\ reader.pc = "reading" =>
          /\ ConsecutiveFrom(reader.frames, reader.next_offset)
          /\ reader.current = reader.next_offset - 1 + Len(reader.frames)
    /\ (response.status = 200 /\ response.source = "log") =>
          /\ ConsecutiveFrom(response.frames, response.offset)
          /\ response.frames[Len(response.frames)] <= logger.tail

\* C11, its case: a 200 served from the log carries the frames read before a
\* compaction that ran during the read, and stops at SnapshotRequired.
ReadCutByCompaction ==
    /\ response.status = 200
    /\ response.source = "log"
    /\ Len(response.frames) >= 2
    /\ reader.pc = "done"
    /\ reader.current < reader.max_available
    /\ response.log_start > reader.current + 1

(***************************************************************************)
(* CONNECTION WORKER: Connection::run AND ConnectionHandle::exec            *)
(***************************************************************************)
\* Tasks that call exec on the handle.
MaxCallers == 2
\* exec calls in a run.
MaxExecCalls == 3
\* new_conn: mpsc::channel(1)
ExecChannelCapacity == 1

CallerIds == 1..MaxCallers
ClosureIds == 1..MaxExecCalls

NoCaller == [pc |-> "idle", n |-> 0, res |-> "none"]

\* Connection::run line 210 done without waiting for the closure: the
\* worker goes back to its select while the closure runs.
SpawnBlocking(w, n) == [w EXCEPT !.st = "select", !.running = @ \cup {n}]

\* Connection::run line 210: tokio::task::block_in_place(|| exec(conn)): the
\* worker runs the closure and does nothing else until it returns.
BlockInPlace(w, n) == [w EXCEPT !.st = "exec", !.running = {n}]

\* The closures of a dropped receiver are dropped, and with each its oneshot
\* sender.
DropQueued(oneshots, queued) ==
    [n \in ClosureIds |->
        IF \E i \in 1..Len(queued) : queued[i] = n THEN "dropped" ELSE oneshots[n]]

\* exec line 114, `ret.await?`: the value the closure sent, or the error the
\* RecvError of a dropped sender is converted to.
RetAwait(oneshot) == IF oneshot = "sent" THEN "ok" ELSE "ConnectionClosed"

\* exec lines 106-110: the oneshot channel and the closure are made.
ExecCall ==
    /\ conn_handle = "alive"
    /\ exec_log.calls < MaxExecCalls
    /\ \E c \in CallerIds :
          /\ exec_callers[c].pc \in {"idle", "returned"}
          /\ exec_callers' = [exec_callers EXCEPT ![c] =
                [pc |-> "sending", n |-> exec_log.calls + 1, res |-> "none"]]
    /\ exec_log' = [exec_log EXCEPT !.calls = @ + 1]
    /\ UNCHANGED <<conn_worker, exec_chan, conn_handle,
                   alloc_vars, stream_vars, proxy_vars, repl_vars, actor_vars, ws_vars,
                   handshake_vars, sql_vars, expire_vars, cancel_vars, stmt_vars>>

\* exec line 112: self.exec.send(closure).await.unwrap().  The send waits
\* for room in the channel; it fails when the receiver is gone, and unwrap
\* then panics in the calling task.
ExecSend ==
    /\ \E c \in CallerIds :
          /\ exec_callers[c].pc = "sending"
          /\ IF conn_worker.st = "ended"
             THEN /\ exec_callers' = [exec_callers EXCEPT ![c].pc = "panicked"]
                  /\ UNCHANGED <<exec_chan, exec_log>>
             ELSE /\ Len(exec_chan) < ExecChannelCapacity
                  /\ exec_chan' = Append(exec_chan, exec_callers[c].n)
                  /\ exec_log' = [exec_log EXCEPT !.sent = Append(@, exec_callers[c].n)]
                  /\ exec_callers' = [exec_callers EXCEPT ![c].pc = "awaiting"]
    /\ UNCHANGED <<conn_worker, conn_handle, alloc_vars, stream_vars, proxy_vars, repl_vars,
                   actor_vars, ws_vars, handshake_vars, sql_vars, expire_vars, cancel_vars,
                   stmt_vars>>

\* exec line 114: ret.await returns once the closure has sent its result or
\* has been dropped.
ExecReturns ==
    /\ \E c \in CallerIds :
          /\ exec_callers[c].pc = "awaiting"
          /\ exec_log.oneshots[exec_callers[c].n] # "pending"
          /\ exec_callers' = [exec_callers EXCEPT ![c].pc = "returned",
                ![c].res = RetAwait(exec_log.oneshots[exec_callers[c].n])]
    /\ UNCHANGED <<conn_worker, exec_chan, conn_handle, exec_log,
                   alloc_vars, stream_vars, proxy_vars, repl_vars, actor_vars, ws_vars,
                   handshake_vars, sql_vars, expire_vars, cancel_vars, stmt_vars>>

\* The ConnectionHandle is dropped by its owner once no exec call borrows
\* it: the exec sender is closed and the exit channel resolves.
HandleDropped ==
    /\ conn_handle = "alive"
    /\ \A c \in CallerIds : exec_callers[c].pc \in {"idle", "returned", "panicked"}
    /\ conn_handle' = "dropped"
    /\ UNCHANGED <<conn_worker, exec_chan, exec_callers, exec_log,
                   alloc_vars, stream_vars, proxy_vars, repl_vars, actor_vars, ws_vars,
                   handshake_vars, sql_vars, expire_vars, cancel_vars, stmt_vars>>

\* Connection::run, arm `Some(exec) = self.exec.recv()`: the next closure is
\* taken from the channel and run.
WorkerRecv ==
    /\ conn_worker.st = "select"
    /\ exec_chan # <<>>
    /\ conn_worker' = BlockInPlace(conn_worker, Head(exec_chan))
    /\ exec_chan' = Tail(exec_chan)
    /\ UNCHANGED <<conn_handle, exec_callers, exec_log,
                   alloc_vars, stream_vars, proxy_vars, repl_vars, actor_vars, ws_vars,
                   handshake_vars, sql_vars, expire_vars, cancel_vars, stmt_vars>>

\* The closure (exec lines 107-110) returns: f(conn) has run on the
\* worker's connection and its result has been sent.
ClosureReturns ==
    /\ \E n \in conn_worker.running :
          /\ conn_worker' = [conn_worker EXCEPT !.st = "select", !.running = @ \ {n},
                                                !.ran = Append(@, n)]
          /\ exec_log' = [exec_log EXCEPT !.oneshots[n] = "sent"]
    /\ UNCHANGED <<exec_chan, conn_handle, exec_callers,
                   alloc_vars, stream_vars, proxy_vars, repl_vars, actor_vars, ws_vars,
                   handshake_vars, sql_vars, expire_vars, cancel_vars, stmt_vars>>

\* f(conn) panics: the worker task unwinds; the Connection, its receiver
\* and the closures still queued are dropped.
ClosurePanics ==
    /\ conn_worker.st = "exec"
    /\ \E n \in conn_worker.running :
          /\ conn_worker' = [conn_worker EXCEPT !.st = "ended", !.running = {},
                                                !.end = "panicked"]
          /\ exec_log' = [exec_log EXCEPT
                !.oneshots = [DropQueued(@, exec_chan) EXCEPT ![n] = "dropped"]]
    /\ exec_chan' = <<>>
    /\ UNCHANGED <<conn_handle, exec_callers, alloc_vars, stream_vars, proxy_vars, repl_vars,
                   actor_vars, ws_vars, handshake_vars, sql_vars, expire_vars, cancel_vars,
                   stmt_vars>>

\* The exit arm taken whether or not the exit channel has resolved.
ExitAlwaysReady == TRUE

\* `&mut self.exit` resolves when the sender held by the ConnectionHandle
\* has sent or has been dropped; nothing sends on it, so it resolves when
\* the handle is dropped.
ExitResolved == conn_handle = "dropped"

\* Connection::run, arm `_ = &mut self.exit => break`: the exit channel has
\* resolved, the loop ends and the task returns its id.
WorkerExit ==
    /\ conn_worker.st = "select"
    /\ ExitResolved
    /\ conn_worker' = [conn_worker EXCEPT !.st = "ended", !.end = "returned",
                                          !.ret = conn_worker.id]
    /\ exec_log' = [exec_log EXCEPT !.oneshots = DropQueued(@, exec_chan)]
    /\ exec_chan' = <<>>
    /\ UNCHANGED <<conn_handle, exec_callers, alloc_vars, stream_vars, proxy_vars, repl_vars,
                   actor_vars, ws_vars, handshake_vars, sql_vars, expire_vars, cancel_vars,
                   stmt_vars>>

\* The JoinSet that owns the task (Allocation::connections_futs) is dropped:
\* the task is aborted at its await, the select, whether or not its handle
\* is still alive; it does not return its id.
WorkerAborted ==
    /\ conn_worker.st = "select"
    /\ conn_worker' = [conn_worker EXCEPT !.st = "ended", !.end = "aborted"]
    /\ exec_log' = [exec_log EXCEPT !.oneshots = DropQueued(@, exec_chan)]
    /\ exec_chan' = <<>>
    /\ UNCHANGED <<conn_handle, exec_callers, alloc_vars, stream_vars, proxy_vars, repl_vars,
                   actor_vars, ws_vars, handshake_vars, sql_vars, expire_vars, cancel_vars,
                   stmt_vars>>

\* new_conn: the worker is spawned and the handle returned.
WorkerInit ==
    /\ conn_worker = [st |-> "select", running |-> {}, ran |-> <<>>,
                      id |-> "self.id", end |-> "none", ret |-> "none"]
    /\ exec_chan = <<>>
    /\ conn_handle = "alive"
    /\ exec_callers = [c \in CallerIds |-> NoCaller]
    /\ exec_log = [calls |-> 0, sent |-> <<>>,
                   oneshots |-> [n \in ClosureIds |-> "pending"]]

InitWorker == AllocIdle /\ StreamIdle /\ ProxyIdle /\ ReplIdle /\ WorkerInit /\ ActorIdle /\ WsIdle /\ HandshakeIdle /\ SqlIdle /\ ExpireIdle /\ CancelIdle /\ StmtIdle

NextWorker ==
    \/ ExecCall
    \/ ExecSend
    \/ ExecReturns
    \/ HandleDropped
    \/ WorkerRecv
    \/ ClosureReturns
    \/ ClosurePanics
    \/ WorkerExit
    \/ WorkerAborted

SpecWorker == InitWorker /\ [][NextWorker]_vars

\* C12: a connection worker runs at most one closure at a time, and is
\* inside block_in_place for as long as one runs, so it takes the next closure
\* or the exit signal only after the closure returned; the closures run in
\* the order in which they were sent.
OneClosureAtATime ==
    /\ Cardinality(conn_worker.running) <= 1
    /\ conn_worker.running # {} => conn_worker.st = "exec"
    /\ Len(conn_worker.ran) <= Len(exec_log.sent)
    /\ \A i \in 1..Len(conn_worker.ran) : conn_worker.ran[i] = exec_log.sent[i]
    /\ \A n \in conn_worker.running : n = exec_log.sent[Len(conn_worker.ran) + 1]
    /\ \A i \in 1..Len(exec_chan) :
          exec_chan[i] = exec_log.sent[Len(conn_worker.ran) + Cardinality(conn_worker.running) + i]

\* C12, its case: a closure has run, the next is running, and a third waits
\* in the channel until the running one returns.
ClosureWaitsForRunning ==
    /\ Len(conn_worker.ran) >= 1
    /\ conn_worker.running # {}
    /\ Len(exec_chan) = 1

\* C13: an exec call on a worker that has terminated returns
\* ConnectionClosed to its caller: no caller panics, and a caller whose
\* closure was dropped has returned ConnectionClosed or is about to.
ExecOnDeadWorkerReturnsError ==
    \A c \in CallerIds :
        /\ exec_callers[c].pc # "panicked"
        /\ (exec_callers[c].pc = "returned" /\ exec_log.oneshots[exec_callers[c].n] = "dropped")
              => exec_callers[c].res = "ConnectionClosed"

(***************************************************************************)
(* THE LOOP OF Allocation::run                                             *)
(***************************************************************************)
\* Messages sent to one allocation in a run.
MaxMessages == 2

\* The messages Allocation::run handles by opening connections.
MessageKinds == {"NewConnection", "HranaPipelineReq"}

\* select!, arm `Some(msg) = self.inbox.recv()`: recv() gives None once the
\* mailbox is closed and drained, the pattern does not match and the arm is
\* disabled.
RecvArmDisabled == inbox.closed /\ inbox.queue = <<>>

\* select!, arm `maybe_id = self.connections_futs.join_next()`: the pattern
\* is a plain binding, which matches every value join_next() gives, None
\* included.
JoinArmMatches(maybe_id) == TRUE

\* A sender puts a message in the mailbox.
InboxSend ==
    /\ ~inbox.closed
    /\ inbox.sent < MaxMessages
    /\ \E kind \in MessageKinds :
          inbox' = [inbox EXCEPT !.queue = Append(@, kind), !.sent = @ + 1]
    /\ UNCHANGED <<actor_pc, alloc_vars, stream_vars, proxy_vars, repl_vars, worker_vars, ws_vars,
                   handshake_vars, sql_vars, expire_vars, cancel_vars, stmt_vars>>

\* The last sender of the mailbox is dropped.
InboxClose ==
    /\ ~inbox.closed
    /\ inbox' = [inbox EXCEPT !.closed = TRUE]
    /\ UNCHANGED <<actor_pc, alloc_vars, stream_vars, proxy_vars, repl_vars, worker_vars, ws_vars,
                   handshake_vars, sql_vars, expire_vars, cancel_vars, stmt_vars>>

\* Allocation::run, the recv arm: NewConnection calls new_conn; a pipeline
\* request calls it when it opens a stream.
ActorRecv ==
    /\ actor_pc = "select"
    /\ inbox.queue # <<>>
    /\ Head(inbox.queue) \in MessageKinds
    /\ IF Head(inbox.queue) = "NewConnection"
       THEN new_conn
       ELSE \E fresh \in BOOLEAN : IF fresh THEN new_conn ELSE UNCHANGED alloc_vars
    /\ inbox' = [inbox EXCEPT !.queue = Tail(@)]
    /\ UNCHANGED <<actor_pc, stream_vars, proxy_vars, repl_vars, worker_vars, ws_vars,
                   handshake_vars, sql_vars, expire_vars, cancel_vars, stmt_vars>>

\* A worker's Connection::run returns while Allocation::run is in its loop:
\* the finished task stays in the JoinSet until it is joined.
ActorWorkerReturns ==
    /\ actor_pc \notin {"returned", "panicked"}
    /\ \E w \in LiveWorkers :
          connections_futs' = (connections_futs \ {w}) \cup {[w EXCEPT !.st = "finished"]}
    /\ UNCHANGED <<next_conn_id, spawned, actor_vars, stream_vars, proxy_vars, repl_vars,
                   worker_vars, ws_vars, handshake_vars, sql_vars, expire_vars,
                   cancel_vars, stmt_vars>>

\* Allocation::run, the join_next arm with a finished task: the task leaves
\* the JoinSet.
ActorJoinSome ==
    /\ actor_pc = "select"
    /\ \E w \in connections_futs :
          /\ w.st = "finished"
          /\ connections_futs' = connections_futs \ {w}
    /\ UNCHANGED <<next_conn_id, spawned, actor_vars, stream_vars, proxy_vars, repl_vars,
                   worker_vars, ws_vars, handshake_vars, sql_vars, expire_vars,
                   cancel_vars, stmt_vars>>

\* Allocation::run at its select with an empty JoinSet: join_next() gives
\* None at once.  If the pattern of the arm matches, the arm runs (and does
\* nothing); if it does not, the arm is disabled, and with the recv arm
\* disabled too the `else => break` arm ends the loop.
ActorJoinNone ==
    /\ actor_pc = "select"
    /\ connections_futs = {}
    /\ IF JoinArmMatches("None")
       THEN actor_pc' = "join_arm"
       ELSE RecvArmDisabled /\ actor_pc' = "returned"
    /\ UNCHANGED <<inbox, alloc_vars, stream_vars, proxy_vars, repl_vars, worker_vars, ws_vars,
                   handshake_vars, sql_vars, expire_vars, cancel_vars, stmt_vars>>

\* The join_next arm is over; the loop goes back to its select.
ActorLoops ==
    /\ actor_pc = "join_arm"
    /\ actor_pc' = "select"
    /\ UNCHANGED <<inbox, alloc_vars, stream_vars, proxy_vars, repl_vars, worker_vars, ws_vars,
                   handshake_vars, sql_vars, expire_vars, cancel_vars, stmt_vars>>

ActorInit ==
    /\ inbox = [queue |-> <<>>, closed |-> FALSE, sent |-> 0, taken |-> 0, answered |-> 0]
    /\ actor_pc = "select"

InitActor == AllocInit /\ StreamIdle /\ ProxyIdle /\ ReplIdle /\ WorkerIdle /\ ActorInit /\ WsIdle /\ HandshakeIdle /\ SqlIdle /\ ExpireIdle /\ CancelIdle /\ StmtIdle

ActorStep ==
    \/ ActorRecv
    \/ ActorJoinSome
    \/ ActorJoinNone
    \/ ActorLoops

NextActor ==
    \/ InboxSend
    \/ InboxClose
    \/ ActorWorkerReturns
    \/ ActorRecv
    \/ ActorJoinSome
    \/ ActorJoinNone
    \/ ActorLoops

\* The task of Allocation::run is scheduled as long as it can take a step.
SpecActor == InitActor /\ [][NextActor]_vars /\ WF_vars(ActorStep)

\* C14: once the mailbox is closed and drained and no connection worker is
\* left, Allocation::run eventually leaves its loop.
ActorTerminates ==
    (inbox.closed /\ inbox.queue = <<>> /\ connections_futs = {})
        ~> (actor_pc = "returned")

(***************************************************************************)
(* HRANA OVER WEBSOCKET: handle_ws AND handle_msg                           *)
(***************************************************************************)
\* Client messages one connection receives in a run.
MaxClientMsgs == 3

\* tungstenite::Message as handle_msg tells them apart; a Text message is a
\* Hello, a Request, or text that is no ClientMsg.
ClientMsgKinds == {"Hello", "Request", "BadText", "Binary", "Ping", "Pong", "Close"}

\* What the session answers to a Hello (handle_initial_hello,
\* handle_repeated_hello): Ok, an error that is a session::ResponseError, a
\* ProtocolError, or any other error.
HelloResults == {"ok", "response_error", "protocol_error", "internal_error"}

\* What a request evaluates to, later: a response, a ResponseError, or any
\* other error.
ResponseResults == {"ok", "response_error", "internal_error"}

\* handle_request_msg lines 215-217: there is no session yet.
SessionNeverMissing(session) == FALSE

SessionMissing(session) == ~session

\* handle_hello_msg: what becomes of the connection for each result of the
\* session's hello handler.  `reply` is the ServerMsg sent, `result` what
\* handle_msg returns.
HelloOutcome(hello_res) ==
    CASE hello_res = "ok" -> [reply |-> "HelloOk", result |-> "continue"]
      [] hello_res = "response_error" -> [reply |-> "HelloError", result |-> "break"]
      [] hello_res = "protocol_error" -> [reply |-> "none", result |-> "protocol_error"]
      [] OTHER -> [reply |-> "none", result |-> "internal_error"]

\* handle_msg: the reply sent and the result returned for a client message.
\* `handed` tells whether the request went to session::handle_request.
HandleMsg(session, kind, hello_res) ==
    CASE kind = "Hello" ->
            HelloOutcome(hello_res) @@ [handed |-> FALSE]
      [] kind = "Request" ->
            IF SessionMissing(session)
            THEN [reply |-> "none", result |-> "protocol_error", handed |-> FALSE]
            ELSE [reply |-> "none", result |-> "continue", handed |-> TRUE]
      [] kind = "BadText" -> [reply |-> "none", result |-> "deserialize_error", handed |-> FALSE]
      [] kind = "Binary" -> [reply |-> "none", result |-> "binary_error", handed |-> FALSE]
      [] kind = "Ping" -> [reply |-> "Pong", result |-> "continue", handed |-> FALSE]
      [] kind = "Pong" -> [reply |-> "none", result |-> "continue", handed |-> FALSE]
      [] OTHER -> [reply |-> "none", result |-> "break", handed |-> FALSE]

\* The payloads of Ping messages and the request_ids of Request messages
\* (an i32 the client chooses, the same for two requests if it likes);
\* messages of other kinds carry neither.  The field `data` of a message
\* holds its payload, its request_id or its close code.
PingPayloads == {"a", "b"}
RequestIds == {"1", "2"}
NoPayload == ""

\* A response that carries no request_id.
ResponseMsgNoId(n, request_id, res) ==
    [kind |-> IF res = "ok" THEN "ResponseOk" ELSE "ResponseError",
     request |-> n, data |-> NoPayload]

\* ResponseFuture::poll: the ServerMsg for the result of the n-th client
\* message, with the request_id the future was pushed with.
ResponseMsg(n, request_id, res) ==
    [kind |-> IF res = "ok" THEN "ResponseOk" ELSE "ResponseError",
     request |-> n, data |-> request_id]

\* handle_msg, arm Ping: tungstenite::Message::Pong(ping_data).
PongMsg(n, ping_data) == [kind |-> "Pong", request |-> n, data |-> ping_data]

\* close(): nothing when ws_closed is set, else the close frame with the
\* code is sent.
Close(ws_closed, out, code) ==
    IF ws_closed THEN out
    ELSE Append(out, [kind |-> "Close", request |-> 0, data |-> code])

\* Every error of handle_msg closed with Policy.
CloseCodePolicy(result) ==
    CASE result = "break" -> "Normal"
      [] result \in {"protocol_error", "deserialize_error", "binary_error"} -> "Policy"
      [] OTHER -> "Error"

\* handle_ws lines 102-123 and 140-145, protocol_error_to_close_code: the
\* close code the connection ends with for a result of handle_msg.
CloseCodeOf(result) ==
    CASE result = "break" -> "Normal"
      [] result = "protocol_error" -> "Policy"
      [] result = "deserialize_error" -> "Invalid"
      [] result = "binary_error" -> "Unsupported"
      [] OTHER -> "Error"

\* handle_ws, the arm of conn.ws.recv(): the next client message is handled
\* to the end before anything else of the connection runs.
WsRecv ==
    /\ ws_conn.st = "open"
    /\ ws_conn.stream = "open"
    /\ Len(ws_log) < MaxClientMsgs
    /\ \E kind \in ClientMsgKinds, hello_res \in HelloResults,
          data \in PingPayloads \cup RequestIds \cup {NoPayload} :
          LET n == Len(ws_log) + 1
              h == HandleMsg(ws_conn.session, kind, hello_res)
              replied == IF h.reply = "none" THEN ws_out
                         ELSE IF h.reply = "Pong" THEN Append(ws_out, PongMsg(n, data))
                         ELSE Append(ws_out, [kind |-> h.reply, request |-> n,
                                              data |-> NoPayload])
          IN
          /\ kind # "Hello" => hello_res = "ok"
          /\ (kind = "Ping") = (data \in PingPayloads)
          /\ (kind = "Request") = (data \in RequestIds)
          /\ ws_log' = Append(ws_log,
                [kind |-> kind, session_before |-> ws_conn.session,
                 hello_res |-> IF kind = "Hello" THEN hello_res ELSE "none",
                 handed |-> h.handed, sent_before |-> Len(ws_out),
                 data |-> data, result |-> h.result])
          /\ ws_out' = IF h.result = "continue" THEN replied
                       ELSE Close(ws_conn.close_code # "none", replied,
                                  CloseCodeOf(h.result))
          /\ ws_conn' = [ws_conn EXCEPT
                !.session = @ \/ (kind = "Hello" /\ hello_res = "ok"),
                !.responses = IF h.handed THEN @ \cup {n} ELSE @,
                !.st = IF h.result = "continue" THEN "open" ELSE "closed",
                !.close_code = IF h.result = "continue" THEN @ ELSE CloseCodeOf(h.result)]
    /\ UNCHANGED <<alloc_vars, stream_vars, proxy_vars, repl_vars, worker_vars, actor_vars,
                   handshake_vars, sql_vars, expire_vars, cancel_vars, stmt_vars>>

\* handle_ws, the arm of conn.responses.next(): a request has been
\* evaluated and its ResponseOk or ResponseError is sent; any other error
\* ends handle_ws.
WsRespond ==
    /\ ws_conn.st = "open"
    /\ \E n \in ws_conn.responses \ ws_conn.dropped, res \in ResponseResults :
          /\ ws_out' = IF res = "internal_error" THEN ws_out
                       ELSE Append(ws_out, ResponseMsg(n, ws_log[n].data, res))
          /\ ws_conn' = [ws_conn EXCEPT
                !.responses = @ \ {n},
                !.st = IF res = "internal_error" THEN "closed" ELSE "open",
                !.close_code = IF res = "internal_error" THEN "none" ELSE @]
    /\ UNCHANGED <<ws_log, alloc_vars, stream_vars, proxy_vars, repl_vars, worker_vars,
                   actor_vars, handshake_vars, sql_vars, expire_vars, cancel_vars,
                   stmt_vars>>

\* handle_ws lines 85-95: no session, no response awaited.
WsInit ==
    /\ ws_conn = [st |-> "open", session |-> FALSE, responses |-> {}, close_code |-> "none",
                  stream |-> "open", dropped |-> {}]
    /\ ws_out = <<>>
    /\ ws_log = <<>>

InitWs == AllocIdle /\ StreamIdle /\ ProxyIdle /\ ReplIdle /\ WorkerIdle /\ ActorIdle /\ WsInit /\ HandshakeIdle /\ SqlIdle /\ ExpireIdle /\ CancelIdle /\ StmtIdle

NextWs ==
    \/ WsRecv
    \/ WsRespond

SpecWs == InitWs /\ [][NextWs]_vars

\* The ServerMsgs sent for the i-th client message.
RepliesTo(i) == {j \in 1..Len(ws_out) : ws_out[j].request = i}

\* The i-th client message ended the connection.
EndedBy(i, code) ==
    /\ i = Len(ws_log)
    /\ ws_conn.st = "closed"
    /\ ws_conn.close_code = code

\* C15 as stated, for a failed Hello: every Hello that fails is answered
\* with HelloError.
FailedHelloGetsHelloError ==
    \A i \in 1..Len(ws_log) :
        (ws_log[i].kind = "Hello" /\ ws_log[i].hello_res # "ok")
            => \E j \in RepliesTo(i) : ws_out[j].kind = "HelloError"

\* C15 as amended: a request is handed to the session only after a Hello
\* has succeeded on the connection; a Request before that is a protocol
\* error that closes the connection (close code Policy) with no response; a
\* Hello that fails with a response error is answered with HelloError, one
\* that fails with any other error gets no HelloError and closes the
\* connection with the close code of the error; after either no further
\* client message is handled.
RequestOnlyAfterHello ==
    \A i \in 1..Len(ws_log) :
        LET m == ws_log[i] IN
        /\ m.handed =>
              \E h \in 1..(i - 1) : ws_log[h].kind = "Hello" /\ ws_log[h].hello_res = "ok"
        /\ (m.kind = "Request" /\ ~m.handed) =>
              /\ ~m.session_before
              /\ EndedBy(i, "Policy")
              /\ RepliesTo(i) = {}
        /\ (m.kind = "Hello" /\ m.hello_res = "response_error") =>
              /\ \E j \in RepliesTo(i) : ws_out[j].kind = "HelloError" /\ j = m.sent_before + 1
              /\ EndedBy(i, "Normal")
        /\ (m.kind = "Hello" /\ m.hello_res = "protocol_error") =>
              (RepliesTo(i) = {} /\ EndedBy(i, "Policy"))
        /\ (m.kind = "Hello" /\ m.hello_res = "internal_error") =>
              (RepliesTo(i) = {} /\ EndedBy(i, "Error"))

\* C15, its case: a Request arrived before any Hello and ended the
\* connection unanswered.
RequestBeforeHelloSeen ==
    \E i \in 1..Len(ws_log) :
        /\ ws_log[i].kind = "Request"
        /\ ~ws_log[i].session_before
        /\ \A h \in 1..(i - 1) : ws_log[h].kind # "Hello"
        /\ i >= 2
        /\ EndedBy(i, "Policy")

(***************************************************************************)
(* WEBSOCKET HANDSHAKE: negotiate_version                                  *)
(***************************************************************************)
\* Sub-protocols listed in one Sec-WebSocket-Protocol header.
MaxOfferTokens == 2

\* A listed sub-protocol: its name, written in lower or in upper case.
ProtocolNames == {"hrana1", "hrana2", "hrana3", "other"}
ProtocolTokens == [name : ProtocolNames, upper : BOOLEAN]

\* The header: absent, a value that is not visible ASCII, or a
\* comma-separated list.
NoProtocolHeader == [present |-> FALSE, is_str |-> FALSE, tokens |-> <<>>]
OpaqueProtocolHeader == [present |-> TRUE, is_str |-> FALSE, tokens |-> <<>>]
ProtocolHeaders ==
    {NoProtocolHeader, OpaqueProtocolHeader} \cup
    {[present |-> TRUE, is_str |-> TRUE, tokens |-> toks] :
        toks \in SeqsUpTo(ProtocolTokens, MaxOfferTokens)}

HandshakePaths == {"tcp", "upgrade"}

\* str::eq_ignore_ascii_case with a lower-case name.
EqIgnoreAsciiCase(token, name) == token.name = name

\* Version::to_string
VersionToString(version) == IF version = "Hrana2" THEN "hrana2" ELSE "hrana1"

\* negotiate_version lines 107-111: protocol_hdr.to_str().unwrap_or(""),
\* split at ',' and trimmed.  The empty string lists one empty name, which
\* matches no sub-protocol.
SupportedByClient(hdr) == IF hdr.is_str THEN hdr.tokens ELSE <<>>

\* negotiate_version: the version selected and the response header set, or
\* the rejection.
NegotiateVersion(hdr) ==
    IF hdr.present
    THEN LET supported_by_client == SupportedByClient(hdr)
             hrana1_supported ==
                 \E i \in 1..Len(supported_by_client) :
                     EqIgnoreAsciiCase(supported_by_client[i], "hrana1")
             hrana2_supported ==
                 \E i \in 1..Len(supported_by_client) :
                     EqIgnoreAsciiCase(supported_by_client[i], "hrana2")
         IN  IF hrana2_supported
             THEN [ok |-> TRUE, version |-> "Hrana2",
                   resp_header |-> VersionToString("Hrana2")]
             ELSE IF hrana1_supported
             THEN [ok |-> TRUE, version |-> "Hrana1",
                   resp_header |-> VersionToString("Hrana1")]
             ELSE [ok |-> FALSE, version |-> "none", resp_header |-> "none"]
    ELSE [ok |-> TRUE, version |-> "Hrana1", resp_header |-> "none"]

\* The handshake ended before negotiate_version was called.
NoVersion == [ok |-> FALSE, version |-> "none", resp_header |-> "none"]

NotNegotiated ==
    [st |-> "none", status |-> "none", ok |-> FALSE, version |-> "none",
     resp_header |-> "none", error |-> "none"]

\* The sub-protocols of Hrana among those the client offers.
OfferedHrana ==
    {ws_offer.tokens[i].name : i \in 1..Len(ws_offer.tokens)}
        \cap {"hrana1", "hrana2", "hrana3"}

HighestHrana(names) ==
    IF "hrana3" \in names THEN "hrana3"
    ELSE IF "hrana2" \in names THEN "hrana2" ELSE "hrana1"

\* C16: for a request whose host header names a namespace and whose
\* handshake does not fail outside the negotiation, the handshake
\* selects the highest of hrana1, hrana2 and hrana3 the
\* client offers and echoes it in the response header; with no header it
\* selects hrana1 and sets no response header; an offer with none of the
\* three is rejected.
NegotiatesHighestOffered ==
    \A p \in HandshakePaths :
        LET r == ws_negotiated[p] IN
        (r.st = "done" /\ routed[p].ok /\ r.error \in {"none", "negotiate"}) =>
            IF ~ws_offer.present
            THEN r.ok /\ r.version = "Hrana1" /\ r.resp_header = "none"
            ELSE IF OfferedHrana = {}
            THEN ~r.ok
            ELSE /\ r.ok
                 /\ VersionToString(r.version) = HighestHrana(OfferedHrana)
                 /\ r.resp_header = HighestHrana(OfferedHrana)

(***************************************************************************)
(* HOST ROUTING: split_namespace and its three callers                     *)
(***************************************************************************)
\* Bytes in a host header value.
MaxHostLen == 3

\* The bytes a host header is made of: two letters, the dot, and a byte
\* that is not valid UTF-8.
HostBytes == {"a", "b", ".", "0xFF"}

NoHostHeader == [present |-> FALSE, bytes |-> <<>>]
HostHeaders ==
    {NoHostHeader} \cup
    {[present |-> TRUE, bytes |-> bs] : bs \in SeqsUpTo(HostBytes, MaxHostLen)}

EntryPoints == {"http", "tcp", "upgrade"}

\* std::str::from_utf8
FromUtf8(bytes) == \A i \in 1..Len(bytes) : bytes[i] # "0xFF"

\* str::rsplit_once('.'): the split at the last dot.
RSplitOnce(str) ==
    LET dots == {i \in 1..Len(str) : str[i] = "."} IN
    IF dots = {} THEN [some |-> FALSE, left |-> <<>>, right |-> <<>>]
    ELSE LET at == CHOOSE i \in dots : \A j \in dots : j <= i IN
         [some |-> TRUE, left |-> SubSeq(str, 1, at - 1),
          right |-> SubSeq(str, at + 1, Len(str))]

\* str::split_once('.'): the split at the first dot.
SplitOnce(str) ==
    LET dots == {i \in 1..Len(str) : str[i] = "."} IN
    IF dots = {} THEN [some |-> FALSE, left |-> <<>>, right |-> <<>>]
    ELSE LET at == CHOOSE i \in dots : \A j \in dots : i <= j IN
         [some |-> TRUE, left |-> SubSeq(str, 1, at - 1),
          right |-> SubSeq(str, at + 1, Len(str))]

NotRouted ==
    [st |-> "none", ok |-> FALSE, ns |-> <<>>, error |-> "none", lookup |-> FALSE]

InvalidHost(msg) ==
    [st |-> "done", ok |-> FALSE, ns |-> <<>>, error |-> msg, lookup |-> FALSE]

\* split_namespace
SplitNamespace(host) ==
    LET split == SplitOnce(host) IN
    IF split.some
    THEN [st |-> "done", ok |-> TRUE, ns |-> split.left, error |-> "none",
          lookup |-> FALSE]
    ELSE InvalidHost("host header should be in the format <namespace>.<...>")

\* extract_namespace, and the same two lines of handshake_upgrade
ExtractNamespace(hdr) ==
    IF ~hdr.present THEN InvalidHost("missing host header")
    ELSE IF ~FromUtf8(hdr.bytes) THEN InvalidHost("Utf8Error")
    ELSE SplitNamespace(hdr.bytes)

\* DbFactoryExtractor::from_request_parts: the namespace is looked up only
\* once split_namespace has returned it.
FromRequestParts ==
    /\ routed["http"].st = "none"
    /\ LET r == IF ~host_header.present THEN InvalidHost("missing host header")
                ELSE IF ~FromUtf8(host_header.bytes)
                THEN InvalidHost("host header is not valid UTF-8")
                ELSE SplitNamespace(host_header.bytes)
       IN  routed' = [routed EXCEPT !["http"] = [r EXCEPT !.lookup = r.ok]]
    /\ UNCHANGED <<ws_offer, ws_negotiated, host_header, alloc_vars, stream_vars,
                   proxy_vars, repl_vars, worker_vars, actor_vars, ws_vars, sql_vars,
                   expire_vars, cancel_vars, stmt_vars>>

\* handshake_tcp, the callback of accept_hdr_async: the namespace is
\* extracted from the host header first, and a request without one is refused
\* with the error as the body, before any version is negotiated; otherwise
\* the handshake is accepted with the negotiated version or refused.
HandshakeTcp ==
    /\ routed["tcp"].st = "none"
    /\ LET ns == ExtractNamespace(host_header)
           r == IF ns.ok THEN NegotiateVersion(ws_offer) ELSE NoVersion
       IN  /\ routed' = [routed EXCEPT !["tcp"] = ns]
           /\ ws_negotiated' = [ws_negotiated EXCEPT !["tcp"] =
                  r @@ [st |-> "done",
                        status |-> IF r.ok THEN "accepted" ELSE "refused",
                        error |-> IF ~ns.ok THEN "host"
                                  ELSE IF ~r.ok THEN "negotiate" ELSE "none"]]
    /\ UNCHANGED <<ws_offer, host_header, alloc_vars, stream_vars, proxy_vars,
                   repl_vars, worker_vars, actor_vars, ws_vars, sql_vars, expire_vars,
                   cancel_vars, stmt_vars>>

\* handshake_upgrade up to its await, for a request whose host names a
\* namespace.  hyper_tungstenite::upgrade fails on a request that is no
\* WebSocket upgrade: the response is a 400 and negotiate_version is not
\* called; otherwise the response carries the negotiated version, or is a
\* 400 (lines 62-85).  The response is handed to response_tx: when its
\* receiver is gone nothing is delivered and the function bails (91-93).
\* With the 101 delivered the function goes on to await the stream future
\* (95-97): nothing is returned yet.
UpgradeOutcome(hdr, upgrade_ok, send_ok) ==
    LET r == IF upgrade_ok THEN NegotiateVersion(hdr) ELSE NoVersion
        built == IF r.ok THEN "switching" ELSE "BAD_REQUEST"
        error == IF ~send_ok THEN "send"
                 ELSE IF ~upgrade_ok THEN "upgrade"
                 ELSE IF ~r.ok THEN "negotiate" ELSE "none"
    IN  [st |-> IF error = "none" THEN "awaiting_stream" ELSE "done",
         status |-> IF send_ok THEN built ELSE "no_response",
         resp_header |-> IF send_ok THEN r.resp_header ELSE "none",
         ok |-> FALSE,
         version |-> "none",
         error |-> error]

\* handshake_upgrade up to its await: a request without a namespace in its
\* host header ends with Err before the upgrade, and no response is sent.
HandshakeUpgrade ==
    /\ routed["upgrade"].st = "none"
    /\ \E upgrade_ok \in BOOLEAN, send_ok \in BOOLEAN :
          LET ns == ExtractNamespace(host_header)
              r == IF ns.ok
                   THEN UpgradeOutcome(ws_offer, upgrade_ok, send_ok)
                   ELSE NoVersion @@ [st |-> "done", status |-> "no_response",
                                      error |-> "host"]
          IN  /\ routed' = [routed EXCEPT !["upgrade"] = ns]
              /\ ws_negotiated' = [ws_negotiated EXCEPT !["upgrade"] = r]
    /\ UNCHANGED <<ws_offer, host_header, alloc_vars, stream_vars, proxy_vars,
                   repl_vars, worker_vars, actor_vars, ws_vars, sql_vars, expire_vars,
                   cancel_vars, stmt_vars>>

\* handshake_upgrade after its await (lines 96-99): the stream future
\* resolves, some time after the 101 was delivered.  With the connection
\* upgraded the function returns the version negotiated before the await;
\* a failed upgrade is returned as Err.
HandshakeUpgradeStream ==
    /\ ws_negotiated["upgrade"].st = "awaiting_stream"
    /\ \E stream_ok \in BOOLEAN :
          ws_negotiated' = [ws_negotiated EXCEPT !["upgrade"] =
              [@ EXCEPT !.st = "done",
                        !.ok = stream_ok,
                        !.version = IF stream_ok THEN NegotiateVersion(ws_offer).version
                                    ELSE "none",
                        !.error = IF stream_ok THEN "none" ELSE "stream"]]
    /\ UNCHANGED <<ws_offer, host_header, routed, alloc_vars, stream_vars, proxy_vars,
                   repl_vars, worker_vars, actor_vars, ws_vars, sql_vars, expire_vars,
                   cancel_vars, stmt_vars>>

\* The 101 was delivered and handshake_upgrade has not returned.
UpgradeResponseBeforeReturn ==
    /\ ws_negotiated["upgrade"].st = "awaiting_stream"
    /\ ws_negotiated["upgrade"].status = "switching"
    /\ ~ws_negotiated["upgrade"].ok

\* The offers the requests of the host routing carry: none, and hrana2.
HostOffers ==
    {NoProtocolHeader,
     [present |-> TRUE, is_str |-> TRUE,
      tokens |-> <<[name |-> "hrana2", upper |-> FALSE]>>]}

\* A request: its host header and its Sec-WebSocket-Protocol header.
HostInit ==
    /\ host_header \in HostHeaders
    /\ routed = [p \in EntryPoints |-> NotRouted]
    /\ ws_offer \in HostOffers
    /\ ws_negotiated = [p \in HandshakePaths |-> NotNegotiated]

\* A handshake request: every host header and every offer.
NegotiateInit ==
    /\ host_header \in HostHeaders
    /\ routed = [p \in EntryPoints |-> NotRouted]
    /\ ws_offer \in ProtocolHeaders
    /\ ws_negotiated = [p \in HandshakePaths |-> NotNegotiated]

InitNegotiate ==
    AllocIdle /\ StreamIdle /\ ProxyIdle /\ ReplIdle /\ WorkerIdle /\ ActorIdle /\ WsIdle
    /\ SqlIdle /\ ExpireIdle /\ CancelIdle /\ StmtIdle /\ NegotiateInit

InitHost ==
    AllocIdle /\ StreamIdle /\ ProxyIdle /\ ReplIdle /\ WorkerIdle /\ ActorIdle /\ WsIdle
    /\ SqlIdle /\ ExpireIdle /\ CancelIdle /\ StmtIdle /\ HostInit

NextHost ==
    \/ FromRequestParts
    \/ HandshakeTcp
    \/ HandshakeUpgrade
    \/ HandshakeUpgradeStream

SpecHost == InitHost /\ [][NextHost]_vars

NextNegotiate ==
    \/ HandshakeTcp
    \/ HandshakeUpgrade
    \/ HandshakeUpgradeStream

SpecNegotiate == InitNegotiate /\ [][NextNegotiate]_vars

\* The host header cannot be routed: missing, not UTF-8, or without a dot.
HostUnroutable ==
    \/ ~host_header.present
    \/ \E i \in 1..Len(host_header.bytes) : host_header.bytes[i] = "0xFF"
    \/ \A i \in 1..Len(host_header.bytes) : host_header.bytes[i] # "."

\* ns is the segment of the host header left of its first dot.
LeftOfFirstDot(ns) ==
    /\ Len(ns) < Len(host_header.bytes)
    /\ \A i \in 1..Len(ns) : ns[i] = host_header.bytes[i] /\ ns[i] # "."
    /\ host_header.bytes[Len(ns) + 1] = "."

\* C17: at every entry point (HTTP, WebSocket over TCP, WebSocket upgrade) a
\* missing, non-UTF-8 or dot-less host header is rejected with no namespace
\* lookup (a WebSocket handshake is then refused with no version
\* negotiated), and any other host header selects the segment left of its
\* first dot as the namespace.
HostSelectsNamespace ==
    \A p \in EntryPoints :
        routed[p].st = "done" =>
            IF HostUnroutable
            THEN /\ ~routed[p].ok /\ ~routed[p].lookup /\ routed[p].error # "none"
                 /\ p \in HandshakePaths =>
                       (~ws_negotiated[p].ok /\ ws_negotiated[p].version = "none")
            ELSE routed[p].ok /\ LeftOfFirstDot(routed[p].ns)

\* A host with two dots was routed at all three entry points.
TwoDotHostRouted ==
    /\ \A p \in EntryPoints : routed[p].st = "done" /\ routed[p].ok
    /\ Cardinality({i \in 1..Len(host_header.bytes) : host_header.bytes[i] = "."}) = 2
    /\ routed["http"].lookup

(***************************************************************************)
(* THE SQL TEXT CACHE OF A STREAM: proto_sql_to_sql, store_sql, close_sql  *)
(***************************************************************************)
\* Streams with a cache.
MaxSqlStreams == 2
\* Requests handled in a run, over all streams.
MaxSqlRequests == 3
\* Pipelines that acquire a stream in a run.
MaxSqlCalls == 3

SqlStreamIds == 1..MaxSqlStreams
\* The sql_id values and the SQL texts the requests use.
SqlIds == {1}
SqlTexts == {"SELECT A", "SELECT B"}

\* Option::None of proto_stmt.sql and of proto_stmt.sql_id.
NoSqlText == "None"
NoSqlId == 0

\* The requests that touch the cache: store_sql, close_sql, and execute of
\* a statement that gives either an sql_id or its SQL text.
SqlRequests ==
    [type : {"store_sql"}, sql_id : SqlIds, sql : SqlTexts]
    \cup [type : {"close_sql"}, sql_id : SqlIds, sql : {NoSqlText}]
    \cup [type : {"execute"}, sql_id : SqlIds, sql : {NoSqlText}]
    \cup [type : {"execute"}, sql_id : {NoSqlId}, sql : {"SELECT A"}]

\* The order of Version.
VersionRank(version) ==
    IF version = "Hrana1" THEN 1 ELSE IF version = "Hrana2" THEN 2 ELSE 3

\* The version of Hrana over HTTP ("HTTP API v2").
HttpVersion == "Hrana2"

\* HashMap<i32, String>: get, insert, remove.
SqlsGet(sqls, sql_id) == IF sql_id \in DOMAIN sqls THEN sqls[sql_id] ELSE NoSqlText
SqlsInsert(sqls, sql_id, sql) ==
    [i \in DOMAIN sqls \cup {sql_id} |-> IF i = sql_id THEN sql ELSE sqls[i]]
SqlsRemove(sqls, sql_id) == [i \in DOMAIN sqls \ {sql_id} |-> sqls[i]]
EmptySqls == [i \in {} |-> NoSqlText]

\* proto_sql_to_sql with the version test after the match on (sql, sql_id).
ProtoSqlToSqlVersionLast(proto_sql, proto_sql_id, sqls, verion) ==
    IF proto_sql # NoSqlText /\ proto_sql_id = NoSqlId
    THEN [ok |-> TRUE, sql |-> proto_sql, code |-> "none"]
    ELSE IF proto_sql # NoSqlText /\ proto_sql_id # NoSqlId
    THEN [ok |-> FALSE, sql |-> NoSqlText, code |-> "SQL_ID_AND_SQL_GIVEN"]
    ELSE IF proto_sql = NoSqlText /\ proto_sql_id = NoSqlId
    THEN [ok |-> FALSE, sql |-> NoSqlText, code |-> "SQL_ID_OR_SQL_NOT_GIVEN"]
    ELSE IF VersionRank(verion) < VersionRank("Hrana2")
    THEN [ok |-> FALSE, sql |-> NoSqlText, code |-> "NOT_SUPPORTED"]
    ELSE IF proto_sql_id \in DOMAIN sqls
    THEN [ok |-> TRUE, sql |-> SqlsGet(sqls, proto_sql_id), code |-> "none"]
    ELSE [ok |-> FALSE, sql |-> NoSqlText, code |-> "SQL_NOT_FOUND"]

\* proto_sql_to_sql
ProtoSqlToSql(proto_sql, proto_sql_id, sqls, verion) ==
    IF proto_sql_id # NoSqlId /\ VersionRank(verion) < VersionRank("Hrana2")
    THEN [ok |-> FALSE, sql |-> NoSqlText, code |-> "NOT_SUPPORTED"]
    ELSE IF proto_sql # NoSqlText /\ proto_sql_id = NoSqlId
    THEN [ok |-> TRUE, sql |-> proto_sql, code |-> "none"]
    ELSE IF proto_sql = NoSqlText /\ proto_sql_id # NoSqlId
    THEN IF proto_sql_id \in DOMAIN sqls
         THEN [ok |-> TRUE, sql |-> SqlsGet(sqls, proto_sql_id), code |-> "none"]
         ELSE [ok |-> FALSE, sql |-> NoSqlText, code |-> "SQL_NOT_FOUND"]
    ELSE IF proto_sql # NoSqlText /\ proto_sql_id # NoSqlId
    THEN [ok |-> FALSE, sql |-> NoSqlText, code |-> "SQL_ID_AND_SQL_GIVEN"]
    ELSE [ok |-> FALSE, sql |-> NoSqlText, code |-> "SQL_ID_OR_SQL_NOT_GIVEN"]

\* request::handle on a stream with the cache sqls: the cache afterwards and
\* what handle returns.  store_sql puts the text in the map, close_sql takes
\* it out, execute resolves the statement's SQL.  An Err of proto_sql_to_sql
\* is a ProtocolError, which proto_stmt_to_query passes on with `?`; it is
\* no StmtError and has no code of a result in place, so handle returns
\* Err.
SqlRequestHandle(req, sqls) ==
    IF req.type = "store_sql"
    THEN [sqls |-> SqlsInsert(sqls, req.sql_id, req.sql),
          result |-> [kind |-> "ok", sql |-> NoSqlText, code |-> "none"]]
    ELSE IF req.type = "close_sql"
    THEN [sqls |-> SqlsRemove(sqls, req.sql_id),
          result |-> [kind |-> "ok", sql |-> NoSqlText, code |-> "none"]]
    ELSE LET r == ProtoSqlToSql(req.sql, req.sql_id, sqls, HttpVersion) IN
         [sqls |-> sqls,
          result |-> IF r.ok THEN [kind |-> "ok", sql |-> r.sql, code |-> "none"]
                     ELSE [kind |-> "Err", sql |-> NoSqlText, code |-> r.code]]

\* protocol_error_response: a ProtocolError is answered with 400 Bad Request.
ProtocolErrorResponse == 400

\* A stream: in the idle set or checked out; its sequence number and cache;
\* the handle_pipeline call that acquired it last (call); the status of the
\* response to that call.
NoSqlStream == [st |-> "absent", seq |-> 0, sqls |-> EmptySqls, call |-> 0, http |-> 0]

\* handle_pipeline without a baton: acquire creates a stream, whose cache is
\* empty.
SqlAcquireNew ==
    /\ sql_calls < MaxSqlCalls
    /\ \E sid \in SqlStreamIds :
          /\ sql_streams[sid].st = "absent"
          /\ \A s \in 1..(sid - 1) : sql_streams[s].st # "absent"
          /\ sql_streams' = [sql_streams EXCEPT ![sid] =
                [st |-> "acquired", seq |-> 0, sqls |-> EmptySqls,
                 call |-> sql_calls + 1, http |-> 0]]
    /\ sql_calls' = sql_calls + 1
    /\ UNCHANGED <<sql_log, alloc_vars, stream_vars, proxy_vars, repl_vars, worker_vars,
                   actor_vars, ws_vars, handshake_vars, expire_vars, cancel_vars,
                   stmt_vars>>

\* handle_pipeline with the baton of an idle stream: acquire checks the
\* stream out with the cache it had.  The baton is the one of the stream's
\* sequence number, which a release has minted; it acquires the stream
\* also after a pipeline that ended with an error.
SqlAcquireBaton ==
    /\ sql_calls < MaxSqlCalls
    /\ \E sid \in SqlStreamIds :
          /\ sql_streams[sid].st = "idle"
          /\ sql_streams[sid].seq >= 1
          /\ sql_streams' = [sql_streams EXCEPT ![sid].st = "acquired",
                                ![sid].call = sql_calls + 1,
                                ![sid].http = 0]
    /\ sql_calls' = sql_calls + 1
    /\ UNCHANGED <<sql_log, alloc_vars, stream_vars, proxy_vars, repl_vars, worker_vars,
                   actor_vars, ws_vars, handshake_vars, expire_vars, cancel_vars,
                   stmt_vars>>

\* The requests handled so far on the streams 1..n.
RECURSIVE SqlHandledUpTo(_)
SqlHandledUpTo(n) == IF n = 0 THEN 0 ELSE Len(sql_log[n]) + SqlHandledUpTo(n - 1)

\* One iteration of the loop of the spawned task on a request that touches
\* the cache.  When request::handle returns Err, the `?` leaves the loop:
\* the results collected so far are dropped, release is not reached, no
\* baton is returned, and the pipeline is answered with the error.  The
\* guard is dropped with the task: the stream goes back to the idle set in
\* its current sequence number, with its cache.
SqlHandle ==
    /\ \E sid \in SqlStreamIds, req \in SqlRequests :
          LET handled == SqlRequestHandle(req, sql_streams[sid].sqls) IN
          /\ sql_streams[sid].st = "acquired"
          /\ SqlHandledUpTo(MaxSqlStreams) < MaxSqlRequests
          /\ sql_streams' =
                IF handled.result.kind = "Err"
                THEN [sql_streams EXCEPT ![sid].st = "idle",
                                         ![sid].http = ProtocolErrorResponse]
                ELSE [sql_streams EXCEPT ![sid].sqls = handled.sqls]
          /\ sql_log' = [sql_log EXCEPT ![sid] =
                Append(@, [req |-> req, result |-> handled.result,
                           call |-> sql_streams[sid].call])]
    /\ UNCHANGED <<sql_calls, alloc_vars, stream_vars, proxy_vars, repl_vars, worker_vars,
                   actor_vars, ws_vars, handshake_vars, expire_vars, cancel_vars,
                   stmt_vars>>

\* The end of the spawned task: release puts the stream, with its cache,
\* back in the idle set under the next sequence number.
SqlRelease ==
    /\ \E sid \in SqlStreamIds :
          /\ sql_streams[sid].st = "acquired"
          /\ sql_streams' = [sql_streams EXCEPT ![sid].st = "idle",
                                ![sid].seq = @ + 1,
                                ![sid].http = 200]
    /\ UNCHANGED <<sql_log, sql_calls, alloc_vars, stream_vars, proxy_vars, repl_vars,
                   worker_vars, actor_vars, ws_vars, handshake_vars, expire_vars,
                   cancel_vars, stmt_vars>>

SqlInit ==
    /\ sql_streams = [s \in SqlStreamIds |-> NoSqlStream]
    /\ sql_log = [s \in SqlStreamIds |-> <<>>]
    /\ sql_calls = 0

InitSql ==
    AllocIdle /\ StreamIdle /\ ProxyIdle /\ ReplIdle /\ WorkerIdle /\ ActorIdle /\ WsIdle
    /\ HandshakeIdle /\ ExpireIdle /\ CancelIdle /\ StmtIdle /\ SqlInit

NextSql ==
    \/ SqlAcquireNew
    \/ SqlAcquireBaton
    \/ SqlHandle
    \/ SqlRelease

SpecSql == InitSql /\ [][NextSql]_vars

\* The k-th request handled on stream sid is a statement that references
\* sql_id = id and gives no SQL text.
RefersTo(sid, k, id) ==
    /\ sql_log[sid][k].req.type = "execute"
    /\ sql_log[sid][k].req.sql = NoSqlText
    /\ sql_log[sid][k].req.sql_id = id

\* The store_sql and close_sql requests for id handled on sid before the k-th.
StoresAndCloses(sid, k, id) ==
    {j \in 1..(k - 1) :
        /\ sql_log[sid][j].req.type \in {"store_sql", "close_sql"}
        /\ sql_log[sid][j].req.sql_id = id}

LastOf(S) == CHOOSE j \in S : \A i \in S : i <= j

\* The k-th request on sid references an id whose last store_sql on that
\* stream was not followed by a close_sql.
StoredAt(sid, k, id) ==
    LET prior == StoresAndCloses(sid, k, id)
    IN  prior # {} /\ sql_log[sid][LastOf(prior)].req.type = "store_sql"

\* C18: on every stream, a statement that references sql_id = id resolves
\* to the text of the last store_sql(id, sql) handled on that stream when no
\* close_sql(id) came after it, in whichever pipeline of the stream the
\* store was; when the id was closed or never stored on that stream, the
\* statement fails with SQL_NOT_FOUND, reported as the result of that
\* request.
SqlCacheResolves ==
    \A sid \in SqlStreamIds, id \in SqlIds :
        \A k \in 1..Len(sql_log[sid]) :
            RefersTo(sid, k, id) =>
                LET res == sql_log[sid][k].result
                IN  IF StoredAt(sid, k, id)
                    THEN /\ res.kind = "ok"
                         /\ res.sql = sql_log[sid][LastOf(StoresAndCloses(sid, k, id))].req.sql
                    ELSE res.kind = "error" /\ res.code = "SQL_NOT_FOUND"

\* A statement that references a stored id resolves to the text of the last
\* store on its stream, in whichever pipeline the store was.
StoredSqlResolves ==
    \A sid \in SqlStreamIds, id \in SqlIds :
        \A k \in 1..Len(sql_log[sid]) :
            (RefersTo(sid, k, id) /\ StoredAt(sid, k, id)) =>
                /\ sql_log[sid][k].result.kind = "ok"
                /\ sql_log[sid][k].result.sql =
                      sql_log[sid][LastOf(StoresAndCloses(sid, k, id))].req.sql

\* A statement that references an id closed or never stored on its stream
\* ends its pipeline: no later request of the same handle_pipeline call is
\* handled, and as long as no later call has acquired the stream, the
\* stream is idle, not released, and the response is 400.
UnknownSqlIdAbortsPipeline ==
    \A sid \in SqlStreamIds, id \in SqlIds :
        \A k \in 1..Len(sql_log[sid]) :
            (RefersTo(sid, k, id) /\ ~StoredAt(sid, k, id)) =>
                /\ sql_log[sid][k].result.kind = "Err"
                /\ \A j \in (k + 1)..Len(sql_log[sid]) :
                      sql_log[sid][j].call # sql_log[sid][k].call
                /\ sql_streams[sid].call = sql_log[sid][k].call =>
                      /\ sql_streams[sid].st = "idle"
                      /\ sql_streams[sid].http = ProtocolErrorResponse

\* A statement resolved an sql_id stored by an earlier handle_pipeline call
\* on its stream.
SqlResolvedAcrossBaton ==
    \E sid \in SqlStreamIds, id \in SqlIds :
        \E k \in 1..Len(sql_log[sid]) :
            /\ RefersTo(sid, k, id)
            /\ sql_log[sid][k].result.kind = "ok"
            /\ StoresAndCloses(sid, k, id) # {}
            /\ sql_log[sid][LastOf(StoresAndCloses(sid, k, id))].call < sql_log[sid][k].call

\* A stream was acquired again, with the baton it had, after a pipeline on
\* it ended with an error.
ResumedAfterError ==
    \E sid \in SqlStreamIds :
        /\ sql_streams[sid].st = "acquired"
        /\ sql_log[sid] # <<>>
        /\ sql_log[sid][Len(sql_log[sid])].result.kind = "Err"
        /\ sql_log[sid][Len(sql_log[sid])].call < sql_streams[sid].call

(***************************************************************************)
(* STREAM EXPIRY: Server::run_expire                                       *)
(***************************************************************************)
\* Streams the registry creates in a run.
MaxExpStreams == 2
\* Ticks of the clock in a run.
MaxExpTime == 3
\* The idle timeout of a stream, in ticks.
StreamIdleTimeout == 1

ExpStreamIds == 1..MaxExpStreams

NoExpStream == [st |-> "absent", last_used |-> 0, conn |-> "none"]

\* How long a stream has not been used.
IdleTime(sid) == exp_now - exp_streams[sid].last_used

\* The streams a pass of run_expire takes whatever their state.
ExpirableIgnoringCheckout ==
    {sid \in ExpStreamIds :
        /\ exp_streams[sid].st \in {"idle", "acquired"}
        /\ IdleTime(sid) > StreamIdleTimeout}

\* The streams a pass of run_expire takes: those in the idle set that were
\* last used longer ago than the timeout.
Expirable ==
    {sid \in ExpStreamIds :
        /\ exp_streams[sid].st = "idle"
        /\ IdleTime(sid) > StreamIdleTimeout}

\* stream::acquire with the current baton of stream sid.
ExpAcquireCheck(sid) ==
    IF exp_streams[sid].st \in {"absent", "expired"} THEN "BatonExpired"
    ELSE IF exp_streams[sid].st = "acquired" THEN "BatonReused"
    ELSE "ok"

\* handle_pipeline without a baton: a new stream, checked out.
ExpAcquireNew ==
    /\ \E sid \in ExpStreamIds :
          /\ exp_streams[sid].st = "absent"
          /\ \A s \in 1..(sid - 1) : exp_streams[s].st # "absent"
          /\ exp_streams' = [exp_streams EXCEPT ![sid] =
                [st |-> "acquired", last_used |-> exp_now, conn |-> "open"]]
    /\ UNCHANGED <<exp_now, exp_evictions, exp_acquires, alloc_vars, stream_vars,
                   proxy_vars, repl_vars, worker_vars, actor_vars, ws_vars,
                   handshake_vars, sql_vars, cancel_vars, stmt_vars>>

\* handle_pipeline with the baton the last release of a stream minted.
\* The outcome is kept for the streams that were evicted.
ExpAcquireBaton ==
    /\ \E sid \in ExpStreamIds :
          LET res == ExpAcquireCheck(sid) IN
          /\ exp_streams[sid].st \in {"idle", "expired"}
          /\ exp_acquires' = IF exp_streams[sid].st = "expired"
                             THEN exp_acquires \cup
                                    {[sid |-> sid, st |-> "expired", result |-> res]}
                             ELSE exp_acquires
          /\ exp_streams' = IF res = "ok"
                            THEN [exp_streams EXCEPT ![sid].st = "acquired"]
                            ELSE exp_streams
    /\ UNCHANGED <<exp_now, exp_evictions, alloc_vars, stream_vars, proxy_vars,
                   repl_vars, worker_vars, actor_vars, ws_vars, handshake_vars, sql_vars,
                   cancel_vars, stmt_vars>>

\* StreamGuard::release: the stream goes back to the idle set with the
\* current time as its last-used time.
ExpRelease ==
    /\ \E sid \in ExpStreamIds :
          /\ exp_streams[sid].st = "acquired"
          /\ exp_streams' = [exp_streams EXCEPT ![sid].st = "idle",
                                ![sid].last_used = exp_now]
    /\ UNCHANGED <<exp_now, exp_evictions, exp_acquires, alloc_vars, stream_vars,
                   proxy_vars, repl_vars, worker_vars, actor_vars, ws_vars,
                   handshake_vars, sql_vars, cancel_vars, stmt_vars>>

\* Time passes.
ExpTick ==
    /\ exp_now < MaxExpTime
    /\ exp_now' = exp_now + 1
    /\ UNCHANGED <<exp_streams, exp_evictions, exp_acquires, alloc_vars, stream_vars,
                   proxy_vars, repl_vars, worker_vars, actor_vars, ws_vars,
                   handshake_vars, sql_vars, cancel_vars, stmt_vars>>

\* One pass of run_expire: every stream idle for longer than the timeout is
\* evicted and its connection closed.
RunExpire ==
    /\ Expirable # {}
    /\ exp_streams' = [sid \in ExpStreamIds |->
          IF sid \in Expirable
          THEN [exp_streams[sid] EXCEPT !.st = "expired", !.conn = "closed"]
          ELSE exp_streams[sid]]
    /\ exp_evictions' = exp_evictions \cup
          {[sid |-> sid, st |-> exp_streams[sid].st,
            timed_out |-> IdleTime(sid) > StreamIdleTimeout,
            passed_over |-> \E o \in ExpStreamIds :
                                /\ exp_streams[o].st = "acquired"
                                /\ IdleTime(o) > StreamIdleTimeout] :
             sid \in Expirable}
    /\ UNCHANGED <<exp_now, exp_acquires, alloc_vars, stream_vars, proxy_vars,
                   repl_vars, worker_vars, actor_vars, ws_vars, handshake_vars, sql_vars,
                   cancel_vars, stmt_vars>>

ExpireInit ==
    /\ exp_streams = [s \in ExpStreamIds |-> NoExpStream]
    /\ exp_now = 0
    /\ exp_evictions = {}
    /\ exp_acquires = {}

InitExpire ==
    AllocIdle /\ StreamIdle /\ ProxyIdle /\ ReplIdle /\ WorkerIdle /\ ActorIdle /\ WsIdle
    /\ HandshakeIdle /\ SqlIdle /\ CancelIdle /\ StmtIdle /\ ExpireInit

NextExpire ==
    \/ ExpAcquireNew
    \/ ExpAcquireBaton
    \/ ExpRelease
    \/ ExpTick
    \/ RunExpire

\* run_expire is a task of its own that wakes up periodically.
SpecExpire == InitExpire /\ [][NextExpire]_vars /\ WF_vars(RunExpire)

\* Every eviction took a stream of the idle set whose idle time was over the
\* timeout; an evicted stream has its connection closed and its baton gives
\* BatonExpired.
ExpirySafe ==
    /\ \A e \in exp_evictions : e.st = "idle" /\ e.timed_out
    /\ \A sid \in ExpStreamIds :
          exp_streams[sid].st = "expired" => exp_streams[sid].conn = "closed"
    /\ \A a \in exp_acquires : a.st = "expired" => a.result = "BatonExpired"

\* C19: run_expire only ever evicts idle streams whose idle time is over the
\* timeout, never a stream checked out to a pipeline however long it has
\* run; a stream that is idle past the timeout is eventually evicted, unless
\* it is resumed first; an evicted stream has its connection closed and its
\* baton yields BatonExpired.
ExpiryOnlyIdle ==
    /\ []ExpirySafe
    /\ \A sid \in ExpStreamIds :
          (exp_streams[sid].st = "idle" /\ IdleTime(sid) > StreamIdleTimeout)
              ~> (exp_streams[sid].st \in {"expired", "acquired"})

\* A pass of run_expire evicted one stream and passed over a stream that was
\* checked out for longer than the timeout; the baton of the evicted stream
\* then gave BatonExpired.
EvictedBesideCheckedOut ==
    \E e \in exp_evictions :
        /\ e.passed_over
        /\ [sid |-> e.sid, st |-> "expired", result |-> "BatonExpired"] \in exp_acquires

(***************************************************************************)
(* HTTP CLIENT DISCONNECT WHILE A PIPELINE IS IN FLIGHT                    *)
(***************************************************************************)
\* Clients that go away in a run.
MaxDisconnects == 1

\* A pipeline whose acquire succeeded is told apart by its stream and the
\* sequence number the stream had when it was acquired.
CallOf(p) == [sid |-> pipelines[p].sid, seq0 |-> pipelines[p].seq0]

\* The client of a pipeline in flight goes away: the receiver of `ret` is
\* dropped.  The requests run in a task of their own (tokio::spawn, line
\* 64) whose handle is dropped at once, so the task is not cancelled; it
\* only meets the dropped receiver at `let _ = ret.send(..)` (line 80),
\* after release, and ignores the failed send.
ClientDisconnect ==
    /\ Cardinality(disconnected) < MaxDisconnects
    /\ \E p \in PipelineIds :
          /\ pipelines[p].pc = "running"
          /\ CallOf(p) \notin disconnected
          /\ disconnected' = disconnected \cup {CallOf(p)}
    /\ UNCHANGED <<alloc_vars, stream_vars, proxy_vars, repl_vars, worker_vars, actor_vars,
                   ws_vars, handshake_vars, sql_vars, expire_vars, stmt_vars>>

InitCancel ==
    AllocIdle /\ StreamInit /\ ProxyIdle /\ ReplIdle /\ WorkerIdle /\ ActorIdle /\ WsIdle
    /\ HandshakeIdle /\ SqlIdle /\ ExpireIdle /\ disconnected = {} /\ StmtIdle

NextCancel ==
    \/ HandlePipelineNew
    \/ HandlePipelineBaton
    \/ TaskRequestStart
    \/ TaskRequestFinish
    \/ TaskRespond
    \/ ClientDisconnect

SpecCancel == InitCancel /\ [][NextCancel]_vars

\* C20: when the task of a pipeline whose client has gone away ends, the
\* stream is back in the registry with the sequence number it was acquired
\* in, so that the baton the client last held still resumes it.
DisconnectKeepsSeq ==
    [][\A p \in PipelineIds :
          (/\ pipelines[p].pc = "running"
           /\ pipelines'[p].pc = "done"
           /\ CallOf(p) \in disconnected)
          => /\ streams'[pipelines[p].sid].st = "idle"
             /\ streams'[pipelines[p].sid].seq = pipelines[p].seq0]_vars

(***************************************************************************)
(* WRITE-PROXY CONNECTION: routing, timeout, transaction state             *)
(***************************************************************************)
\* C21: a program is executed on the local replica only when it is
\* read-only and the connection is outside a primary-owned transaction, and
\* is sent to the primary only when it is not both: every write, mixed,
\* begin, commit or rollback program, and every program of a connection in
\* TxnOnPrimary, goes to the primary.
RoutedByRule ==
    \A c \in ProxyConnIds :
        LET conn == proxy_conns[c] IN
        /\ conn.pc = "proxy" => ~(conn.prog = "read" /\ conn.state = "Init")
        /\ conn.pc = "wait" => conn.prog = "read" /\ conn.state = "Init"
        /\ read_log[c].done => read_log[c].prog = "read" /\ read_log[c].state = "Init"

\* A connection that has run a read locally is inside a primary-owned
\* transaction and its next read is on its way to the primary.
ReadInTxnProxied ==
    \E c \in ProxyConnIds :
        /\ read_log[c].done
        /\ proxy_conns[c].pc = "proxy"
        /\ proxy_conns[c].prog = "read"
        /\ proxy_conns[c].state = "TxnOnPrimary"

\* C22: a caller that received TransactionTimeout finds the connection in
\* Init, whatever state it was in, with no request on its way to the
\* primary: the request that timed out is not sent again.
TimeoutResetsState ==
    \A c \in ProxyConnIds :
        proxy_conns[c].result = "TransactionTimeout" =>
            /\ proxy_conns[c].state = "Init"
            /\ proxy_conns[c].pc # "proxy"

\* A request of a connection timed out after an earlier write of the
\* connection had been answered.
TimedOutAfterWrite ==
    \E c \in ProxyConnIds :
        /\ proxy_conns[c].result = "TransactionTimeout"
        /\ proxy_conns[c].wrote >= 1

\* C26: a connection starts in Init; it enters TxnOnPrimary exactly on the
\* response to a begin sent to the primary and leaves it exactly on the
\* response to a commit or rollback, or on a timeout; the last frame number
\* seen from the primary never decreases.
TxnStateMachine ==
    [][\A c \in ProxyConnIds :
          LET a == proxy_conns[c]
              b == proxy_conns'[c]
          IN
          /\ (~a.open /\ b.open) => (b.state = "Init" /\ b.last_seen = 0)
          /\ (a.state = "Init" /\ b.state = "TxnOnPrimary")
                => (a.pc = "proxy" /\ a.prog = "begin" /\ b.result = "ok")
          /\ (a.pc = "proxy" /\ a.prog = "begin" /\ b.result = "ok")
                => b.state = "TxnOnPrimary"
          /\ (a.state = "TxnOnPrimary" /\ b.state = "Init")
                => /\ a.pc = "proxy"
                   /\ \/ (a.prog \in {"commit", "rollback"} /\ b.result = "ok")
                      \/ b.result = "TransactionTimeout"
          /\ (a.state = "TxnOnPrimary" /\ a.pc = "proxy" /\ b.pc = "idle")
                => (b.state = "Init" <=> (a.prog \in {"commit", "rollback"}
                                            \/ b.result = "TransactionTimeout"))
          /\ b.last_seen >= a.last_seen]_vars

\* A transaction was begun on the primary and committed, and the commit
\* raised the last frame number seen.
TxnBegunAndCommitted ==
    \E c \in ProxyConnIds :
        /\ proxy_conns[c].state = "Init"
        /\ proxy_conns[c].result = "ok"
        /\ proxy_conns[c].last_seen >= 2
        /\ proxy_conns[c].wrote = proxy_conns[c].last_seen

(***************************************************************************)
(* ACQUIRE WITH A PRESENTED BATON: the order of the checks                 *)
(***************************************************************************)
\* Sequence numbers of the streams and batons at the start.
MaxBatonSeq == 2
\* Batons presented in a run.
MaxPresented == 2

\* The batons a client can present: for every stream id and sequence number,
\* the one the server minted and one with a MAC made without the key.
PresentedBatons ==
    {Baton(sid, seq) : sid \in StreamIds, seq \in 1..MaxBatonSeq}
        \cup {ForgedBaton(sid, seq) : sid \in StreamIds, seq \in 1..MaxBatonSeq}

\* The registry some time into a run: a stream is idle under one of its
\* sequence numbers, or it is not there (never created, or evicted).
Registries ==
    {[sid \in StreamIds |->
         IF seqs[sid] = 0 THEN NoStream
         ELSE [st |-> "idle", seq |-> seqs[sid], conn |-> sid]] :
       seqs \in [StreamIds -> 0..MaxBatonSeq]}

\* handle_pipeline line 62 with any baton a client can present and a
\* pipeline of one request: on an error of acquire the `?` returns it and
\* lines 64-81 are not reached.
HandlePipelinePresented ==
    /\ calls < MaxPresented
    /\ \E p \in PipelineIds, baton \in PresentedBatons :
          /\ FreePlace(p)
          /\ LET res == AcquireCheck(baton)
                 seen == streams[baton.sid].seq
             IN  IF res = "ok"
                 THEN /\ streams' = SpawnWithGuard(Checkout(baton.sid), baton.sid)
                      /\ acquired_batons' = acquired_batons \cup {baton}
                      /\ \E reqs \in {r \in RequestBatches : Len(r) = 1} :
                            pipelines' = [pipelines EXCEPT ![p] =
                               [NoPipeline EXCEPT !.pc = "running", !.baton = baton,
                                   !.sid = baton.sid, !.seq0 = seen, !.reqs = reqs]]
                 ELSE /\ streams' = FailedAcquire(baton)
                      /\ acquired_batons' = acquired_batons
                      /\ pipelines' = [pipelines EXCEPT ![p] =
                            [NoPipeline EXCEPT !.pc = "done", !.baton = baton,
                                !.sid = baton.sid, !.seq0 = seen,
                                !.resp = [NoResp EXCEPT !.kind = "stream_error", !.err = res]]]
    /\ calls' = calls + 1
    /\ UNCHANGED <<conn_busy, alloc_vars, proxy_vars, repl_vars, worker_vars, actor_vars, ws_vars,
                   handshake_vars, sql_vars, expire_vars, cancel_vars, stmt_vars>>

AcquireInit ==
    /\ streams \in Registries
    /\ pipelines = [p \in PipelineIds |-> NoPipeline]
    /\ calls = 0
    /\ conn_busy = [c \in StreamIds |-> ConnIdle]
    /\ acquired_batons = {}

InitAcquire ==
    AllocIdle /\ AcquireInit /\ ProxyIdle /\ ReplIdle /\ WorkerIdle /\ ActorIdle /\ WsIdle
    /\ HandshakeIdle /\ SqlIdle /\ ExpireIdle /\ CancelIdle /\ StmtIdle

NextAcquire ==
    \/ HandlePipelinePresented
    \/ TaskRequestStart
    \/ TaskRequestFinish
    \/ TaskRespond

SpecAcquire == InitAcquire /\ [][NextAcquire]_vars

\* The answer to a presented baton that the order of checks prescribes, for
\* a stream that was seen with sequence number seen.
ClassOf(baton, seen) ==
    IF baton.mac # <<"baton_key", baton.sid, baton.seq>> THEN "BatonInvalid"
    ELSE IF streams[baton.sid].st = "absent" THEN "BatonExpired"
    ELSE IF baton.seq # seen THEN "BatonReused"
    ELSE "other"

\* C23: a baton whose MAC does not verify is answered BatonInvalid whether
\* or not its stream is registered; a baton with a valid MAC for a stream
\* that is not registered is answered BatonExpired; one with a valid MAC for
\* a registered stream with another sequence number is answered BatonReused;
\* and a pipeline answered with any of these has had none of its requests
\* executed.
AcquireErrorOrder ==
    \A p \in PipelineIds :
        LET pl == pipelines[p]
            class == ClassOf(pl.baton, pl.seq0)
        IN
        (pl.pc # "unused" /\ pl.baton # NoBaton) =>
            /\ class # "other" =>
                  (pl.pc = "done" /\ pl.resp.kind = "stream_error" /\ pl.resp.err = class)
            /\ pl.resp.kind = "stream_error" =>
                  /\ pl.results = <<>>
                  /\ pl.reqs = <<>>
                  /\ pl.resp.results = <<>>
                  /\ \A c \in StreamIds : conn_busy[c].p # p

\* A forged baton of a stream that is not registered was answered
\* BatonInvalid, after a minted baton had been presented.
ForgedForMissingStream ==
    \E p \in PipelineIds :
        /\ pipelines[p].baton \in PresentedBatons
        /\ streams[pipelines[p].baton.sid].st = "absent"
        /\ pipelines[p].resp.err = "BatonInvalid"
        /\ calls = MaxPresented

(***************************************************************************)
(* CONNECTION WORKER: termination                                          *)
(***************************************************************************)
\* The worker task is scheduled, its select takes a ready arm, and a closure
\* that runs comes to an end.
SpecWorkerLive ==
    InitWorker /\ [][NextWorker]_vars
        /\ WF_vars(WorkerExit) /\ WF_vars(WorkerRecv)
        /\ WF_vars(ClosureReturns \/ ClosurePanics)

\* The worker returns only once its handle is gone, with its id, and with
\* every closure it took run to its end.
ReturnsOnlyAfterExit ==
    conn_worker.end = "returned" =>
        /\ conn_handle = "dropped"
        /\ conn_worker.ret = conn_worker.id
        /\ conn_worker.running = {}
        /\ \A i \in 1..Len(conn_worker.ran) : exec_log.oneshots[conn_worker.ran[i]] = "sent"

\* C24: once the ConnectionHandle is dropped, which resolves the exit signal
\* and closes the closure queue, the worker eventually terminates; it
\* returns, with its id, only after that, and only between closures, so a
\* closure that is running finishes first.
WorkerTerminates ==
    /\ []ReturnsOnlyAfterExit
    /\ (conn_handle = "dropped") ~> (conn_worker.st = "ended")

\* The worker ran a closure, then its handle was dropped and it returned its
\* id.
WorkerReturnedId ==
    /\ conn_worker.end = "returned"
    /\ conn_worker.ret = "self.id"
    /\ Len(conn_worker.ran) >= 1

(***************************************************************************)
(* ALLOCATION ACTOR: reaping finished workers                              *)
(***************************************************************************)
\* Allocation::run keeps polling its select, so the join_next arm is taken
\* once a task has finished.
SpecReap == Init /\ [][Next]_vars /\ WF_vars(JoinNext)

\* The tasks of the JoinSet, by the number they were spawned with.
TaskNos == 0..MaxSpawned
InJoinSet(t) == \E w \in connections_futs : w.task = t
FinishedTask(t) == \E w \in connections_futs : w.task = t /\ w.st = "finished"

\* C25: a worker that has completed is reaped by the actor: it leaves the
\* JoinSet, so it is counted nowhere, only completed workers leave it, and
\* its id is issued again when next_conn_id comes back to it.
FinishedWorkerReaped ==
    /\ \A t \in TaskNos : FinishedTask(t) ~> ~InJoinSet(t)
    /\ [][\A w \in connections_futs :
             (\A v \in connections_futs' : v.task # w.task) =>
                 /\ w.st = "finished"
                 /\ Cardinality(connections_futs') < Cardinality(connections_futs)
                 /\ next_conn_id' = next_conn_id]_vars

\* The worker with id 1 completed and was reaped, and a later connection
\* was given id 1.
ReapedIdIssuedAgain ==
    /\ ~InJoinSet(0)
    /\ \E w \in LiveWorkers : w.task # 0 /\ w.id = U32(0, 1)

(***************************************************************************)
(* REPLICATION FRAME ENDPOINT: offset 0, 204 and 200                       *)
(***************************************************************************)
\* The frame numbers of a response.
FrameNosOf(rsp) == {rsp.frames[i] : i \in 1..Len(rsp.frames)}

\* C27: the response to an authenticated, well-formed request, before the
\* replica has handled it: the offset served is the requested one with 0
\* taken as 1; the status is 204 exactly when the primary has no frame at
\* or after that offset; a 200 carries at least one frame, the first being
\* the frame at the offset.
FramesOr204 ==
    (replica.st = "awaiting" /\ reader.pc = "done" /\ response.status \notin {400, 401}) =>
        /\ response.offset = Max(replica.next_offset, 1)
        /\ response.offset >= 1
        /\ response.status = 204 <=> logger.tail < response.offset
        /\ response.status \in {200, 204, 500}
        /\ response.status = 200 =>
              /\ Len(response.frames) >= 1
              /\ response.frames[1] = response.offset
              /\ \A n \in FrameNosOf(response) : response.offset <= n /\ n <= logger.tail

\* With no failed snapshot lookup the status is 204 exactly when the
\* primary has no frame at or after the offset.
FramesOr204UnlessLookupFailed ==
    response.fault # "lookup_err" => FramesOr204

(***************************************************************************)
(* HRANA STATEMENTS: proto_sql_to_sql and proto_stmt_to_query              *)
(***************************************************************************)
\* The sql_ids a statement may carry or a cache may hold: 1..MaxStmtSqlId.
MaxStmtSqlId == 2
\* The longest args and named_args of a statement.
MaxStmtArgs == 1

\* SQL texts by what Statement::parse yields for them: one statement, no
\* statement, two statements, a parse error, a statement and then a parse
\* error.
StmtTexts == {"SELECT 1", "", "SELECT 1; SELECT 2", "SELEC", "SELECT 1; SELEC"}
\* The texts a cache holds in the model.
CachedTexts == {"SELECT 1", "SELEC"}
StmtSqlIds == 1..MaxStmtSqlId
Versions == {"Hrana1", "Hrana2", "Hrana3"}

\* Statement::parse(sql): the iterator over the statements of the text,
\* each parsed or not.
StatementParse(sql) ==
    CASE sql = "SELECT 1" -> <<"Ok">>
      [] sql = "" -> <<>>
      [] sql = "SELECT 1; SELECT 2" -> <<"Ok", "Ok">>
      [] sql = "SELEC" -> <<"Err">>
      [] sql = "SELECT 1; SELEC" -> <<"Ok", "Err">>
      [] OTHER -> <<"Ok">>

\* proto::Value and query::Value, by their variants.
ProtoValues == {"Integer", "Float"}
\* proto_value_to_value
ProtoValueToValue(proto_value) ==
    CASE proto_value = "Null" -> "Null"
      [] proto_value = "Integer" -> "Integer"
      [] proto_value = "Float" -> "Real"
      [] proto_value = "Text" -> "Text"
      [] OTHER -> "Blob"

NamedArgs == [name : {"a"}, value : ProtoValues]

\* Option<bool> want_rows.
WantRows == {"None", "true", "false"}

\* libsqlx::error::ErrorCode: the 24 codes sqlite_error_code names, and one
\* that stands for every other variant of the non-exhaustive enum.
SqliteErrorCodes ==
    {"InternalMalfunction", "PermissionDenied", "OperationAborted", "DatabaseBusy",
     "DatabaseLocked", "OutOfMemory", "ReadOnly", "OperationInterrupted",
     "SystemIoFailure", "DatabaseCorrupt", "NotFound", "DiskFull", "CannotOpen",
     "FileLockingProtocolFailed", "SchemaChanged", "TooBig", "ConstraintViolation",
     "TypeMismatch", "ApiMisuse", "NoLargeFileSupport",
     "AuthorizationForStatementDenied", "ParameterOutOfRange", "NotADatabase",
     "Unknown", "Other"}

\* sqlite_error_code
SqliteErrorCode(code) ==
    CASE code = "InternalMalfunction" -> "SQLITE_INTERNAL"
      [] code = "PermissionDenied" -> "SQLITE_PERM"
      [] code = "OperationAborted" -> "SQLITE_ABORT"
      [] code = "DatabaseBusy" -> "SQLITE_BUSY"
      [] code = "DatabaseLocked" -> "SQLITE_LOCKED"
      [] code = "OutOfMemory" -> "SQLITE_NOMEM"
      [] code = "ReadOnly" -> "SQLITE_READONLY"
      [] code = "OperationInterrupted" -> "SQLITE_INTERRUPT"
      [] code = "SystemIoFailure" -> "SQLITE_IOERR"
      [] code = "DatabaseCorrupt" -> "SQLITE_CORRUPT"
      [] code = "NotFound" -> "SQLITE_NOTFOUND"
      [] code = "DiskFull" -> "SQLITE_FULL"
      [] code = "CannotOpen" -> "SQLITE_CANTOPEN"
      [] code = "FileLockingProtocolFailed" -> "SQLITE_PROTOCOL"
      [] code = "SchemaChanged" -> "SQLITE_SCHEMA"
      [] code = "TooBig" -> "SQLITE_TOOBIG"
      [] code = "ConstraintViolation" -> "SQLITE_CONSTRAINT"
      [] code = "TypeMismatch" -> "SQLITE_MISMATCH"
      [] code = "ApiMisuse" -> "SQLITE_MISUSE"
      [] code = "NoLargeFileSupport" -> "SQLITE_NOLFS"
      [] code = "AuthorizationForStatementDenied" -> "SQLITE_AUTH"
      [] code = "ParameterOutOfRange" -> "SQLITE_RANGE"
      [] code = "NotADatabase" -> "SQLITE_NOTADB"
      [] code = "Unknown" -> "SQLITE_UNKNOWN"
      [] OTHER -> "SQLITE_UNKNOWN"

\* A StmtError: its variant and, for SqliteError, the code of its source.
StmtErrorVariants ==
    {"SqlParse", "SqlNoStmt", "SqlManyStmts", "ArgsInvalid",
     "ArgsBothPositionalAndNamed", "TransactionTimeout", "TransactionBusy",
     "SqlInputError", "Blocked"}
StmtErr(variant) == [variant |-> variant, source |-> "none"]
SqliteError(code) == [variant |-> "SqliteError", source |-> code]
StmtErrors ==
    {StmtErr(v) : v \in StmtErrorVariants} \cup {SqliteError(c) : c \in SqliteErrorCodes}

\* StmtError::code
StmtErrorCode(err) ==
    CASE err.variant = "SqlParse" -> "SQL_PARSE_ERROR"
      [] err.variant = "SqlNoStmt" -> "SQL_NO_STATEMENT"
      [] err.variant = "SqlManyStmts" -> "SQL_MANY_STATEMENTS"
      [] err.variant = "ArgsInvalid" -> "ARGS_INVALID"
      [] err.variant = "ArgsBothPositionalAndNamed" -> "ARGS_BOTH_POSITIONAL_AND_NAMED"
      [] err.variant = "TransactionTimeout" -> "TRANSACTION_TIMEOUT"
      [] err.variant = "TransactionBusy" -> "TRANSACTION_BUSY"
      [] err.variant = "SqliteError" -> SqliteErrorCode(err.source)
      [] err.variant = "SqlInputError" -> "SQL_INPUT_ERROR"
      [] err.variant = "Blocked" -> "BLOCKED"

NoQuery == [stmt |-> "none", params |-> "none", values |-> <<>>, want_rows |-> FALSE]
QueryErr(code) == [ok |-> FALSE, code |-> code, query |-> NoQuery]

\* The parameters of a query (lines 100-113).
ParamsOf(proto_stmt) ==
    IF proto_stmt.named_args = <<>>
    THEN [ok |-> TRUE, params |-> "Positional",
          values |-> [i \in DOMAIN proto_stmt.args |-> ProtoValueToValue(proto_stmt.args[i])]]
    ELSE IF proto_stmt.args = <<>>
    THEN [ok |-> TRUE, params |-> "Named",
          values |-> [i \in DOMAIN proto_stmt.named_args |->
                         [name |-> proto_stmt.named_args[i].name,
                          value |-> ProtoValueToValue(proto_stmt.named_args[i].value)]]]
    ELSE [ok |-> FALSE, params |-> "none", values |-> <<>>]

\* proto_stmt_to_query with the arguments looked at before the SQL.
ProtoStmtToQueryArgsFirst(proto_stmt, sqls, verion) ==
    LET params == ParamsOf(proto_stmt)
        sql == ProtoSqlToSql(proto_stmt.sql, proto_stmt.sql_id, sqls, verion)
    IN  IF ~params.ok THEN QueryErr(StmtErrorCode(StmtErr("ArgsBothPositionalAndNamed")))
        ELSE IF ~sql.ok THEN QueryErr(sql.code)
        ELSE LET stmt_iter == StatementParse(sql.sql)
             IN  IF stmt_iter = <<>> THEN QueryErr(StmtErrorCode(StmtErr("SqlNoStmt")))
                 ELSE IF stmt_iter[1] = "Err" THEN QueryErr(StmtErrorCode(StmtErr("SqlParse")))
                 ELSE IF Len(stmt_iter) > 1 THEN QueryErr(StmtErrorCode(StmtErr("SqlManyStmts")))
                 ELSE [ok |-> TRUE, code |-> "none",
                       query |-> [stmt |-> sql.sql, params |-> params.params,
                                  values |-> params.values,
                                  want_rows |-> proto_stmt.want_rows # "false"]]

\* proto_stmt_to_query: resolve the SQL, parse it to exactly one statement,
\* build the parameters, default want_rows to true.
ProtoStmtToQuery(proto_stmt, sqls, verion) ==
    LET sql == ProtoSqlToSql(proto_stmt.sql, proto_stmt.sql_id, sqls, verion)
    IN  IF ~sql.ok THEN QueryErr(sql.code)
        ELSE LET stmt_iter == StatementParse(sql.sql)
                 params == ParamsOf(proto_stmt)
             IN  IF stmt_iter = <<>> THEN QueryErr(StmtErrorCode(StmtErr("SqlNoStmt")))
                 ELSE IF stmt_iter[1] = "Err" THEN QueryErr(StmtErrorCode(StmtErr("SqlParse")))
                 ELSE IF Len(stmt_iter) > 1 THEN QueryErr(StmtErrorCode(StmtErr("SqlManyStmts")))
                 ELSE IF ~params.ok THEN QueryErr(StmtErrorCode(StmtErr("ArgsBothPositionalAndNamed")))
                 ELSE [ok |-> TRUE, code |-> "none",
                       query |-> [stmt |-> sql.sql, params |-> params.params,
                                  values |-> params.values,
                                  want_rows |-> proto_stmt.want_rows # "false"]]

\* The SQL caches: the maps from some of the sql_ids to texts.
StmtCaches == UNION {[ids -> CachedTexts] : ids \in SUBSET StmtSqlIds}

\* A statement as it arrives, with the cache of its stream and the version
\* of its connection.
StmtInit ==
    /\ \E sql \in StmtTexts \cup {NoSqlText}, sql_id \in StmtSqlIds \cup {NoSqlId},
          args \in SeqsUpTo(ProtoValues, MaxStmtArgs),
          named_args \in SeqsUpTo(NamedArgs, MaxStmtArgs),
          want_rows \in WantRows, sqls \in StmtCaches, verion \in Versions :
          stmt_in = [sql |-> sql, sql_id |-> sql_id, args |-> args,
                     named_args |-> named_args, want_rows |-> want_rows,
                     sqls |-> sqls, verion |-> verion]
    /\ stmt_out = <<>>

\* proto_sql_to_sql is applied to the statement.
ResolveSql ==
    /\ stmt_out = <<>>
    /\ stmt_out' = [op |-> "proto_sql_to_sql",
                    res |-> ProtoSqlToSql(stmt_in.sql, stmt_in.sql_id, stmt_in.sqls,
                                          stmt_in.verion)]
    /\ UNCHANGED <<stmt_in, alloc_vars, stream_vars, proxy_vars, repl_vars, worker_vars,
                   actor_vars, ws_vars, handshake_vars, sql_vars, expire_vars, cancel_vars>>

\* proto_stmt_to_query is applied to the statement.
BuildQuery ==
    /\ stmt_out = <<>>
    /\ stmt_out' = [op |-> "proto_stmt_to_query",
                    res |-> ProtoStmtToQuery(stmt_in, stmt_in.sqls, stmt_in.verion)]
    /\ UNCHANGED <<stmt_in, alloc_vars, stream_vars, proxy_vars, repl_vars, worker_vars,
                   actor_vars, ws_vars, handshake_vars, sql_vars, expire_vars, cancel_vars>>

\* The StmtErrors the execution of a query ends with (From<Error> for
\* HranaError): the others are raised before the query is built.
ExecutionErrors ==
    {StmtErr(v) : v \in {"ArgsInvalid", "TransactionTimeout", "TransactionBusy",
                         "SqlInputError", "Blocked"}}
        \cup {SqliteError(c) : c \in SqliteErrorCodes}

\* proto_error_from_stmt_error: the query that was built fails when it is
\* executed, and the error is reported with the code of StmtError::code.
ProtoErrorFromStmtError ==
    /\ stmt_out # <<>>
    /\ stmt_out.op = "proto_stmt_to_query"
    /\ stmt_out.res.ok
    /\ \E error \in ExecutionErrors :
          stmt_out' = [op |-> "proto_error_from_stmt_error", error |-> error,
                       res |-> QueryErr(StmtErrorCode(error))]
    /\ UNCHANGED <<stmt_in, alloc_vars, stream_vars, proxy_vars, repl_vars, worker_vars,
                   actor_vars, ws_vars, handshake_vars, sql_vars, expire_vars, cancel_vars>>

InitStmt ==
    AllocIdle /\ StreamIdle /\ ProxyIdle /\ ReplIdle /\ WorkerIdle /\ ActorIdle /\ WsIdle
    /\ HandshakeIdle /\ SqlIdle /\ ExpireIdle /\ CancelIdle /\ StmtInit

NextStmt ==
    \/ ResolveSql
    \/ BuildQuery
    \/ ProtoErrorFromStmtError

SpecStmt == InitStmt /\ [][NextStmt]_vars

SqlGiven == stmt_in.sql # NoSqlText
SqlIdGiven == stmt_in.sql_id # NoSqlId
BelowHrana2 == stmt_in.verion = "Hrana1"
Resolved == stmt_out # <<>> /\ stmt_out.op = "proto_sql_to_sql"

\* C28: proto_sql_to_sql by the combination of sql, sql_id, cache content
\* and version: an sql_id under a version below Hrana2 is NotSupported
\* whatever else is given; otherwise only sql gives that sql, only sql_id
\* gives the cached text or SqlNotFound, both is SqlIdAndSqlGiven, neither
\* is SqlIdOrSqlNotGiven.
SqlResolution ==
    Resolved =>
        LET res == stmt_out.res IN
        CASE SqlIdGiven /\ BelowHrana2 ->
                 ~res.ok /\ res.code = "NOT_SUPPORTED"
          [] SqlGiven /\ ~SqlIdGiven ->
                 res.ok /\ res.sql = stmt_in.sql
          [] ~SqlGiven /\ SqlIdGiven /\ ~BelowHrana2 ->
                 IF stmt_in.sql_id \in DOMAIN stmt_in.sqls
                 THEN res.ok /\ res.sql = stmt_in.sqls[stmt_in.sql_id]
                 ELSE ~res.ok /\ res.code = "SQL_NOT_FOUND"
          [] SqlGiven /\ SqlIdGiven /\ ~BelowHrana2 ->
                 ~res.ok /\ res.code = "SQL_ID_AND_SQL_GIVEN"
          [] OTHER ->
                 ~res.ok /\ res.code = "SQL_ID_OR_SQL_NOT_GIVEN"

\* Both sql and a cached sql_id were given under Hrana1, and the answer was
\* NotSupported.
BothGivenUnderHrana1 ==
    /\ Resolved
    /\ SqlGiven /\ SqlIdGiven /\ BelowHrana2
    /\ stmt_in.sql_id \in DOMAIN stmt_in.sqls
    /\ stmt_out.res.code = "NOT_SUPPORTED"

Built == stmt_out # <<>> /\ stmt_out.op = "proto_stmt_to_query"

\* The SQL of the statement resolves: exactly one of sql and sql_id is
\* given, and an sql_id is allowed by the version and held by the cache.
SqlResolves ==
    \/ SqlGiven /\ ~SqlIdGiven
    \/ ~SqlGiven /\ SqlIdGiven /\ ~BelowHrana2 /\ stmt_in.sql_id \in DOMAIN stmt_in.sqls
ResolvedText == IF SqlGiven THEN stmt_in.sql ELSE stmt_in.sqls[stmt_in.sql_id]
ArgsConflict == stmt_in.args # <<>> /\ stmt_in.named_args # <<>>
SqlErrorCodes ==
    {"NOT_SUPPORTED", "SQL_NOT_FOUND", "SQL_ID_AND_SQL_GIVEN", "SQL_ID_OR_SQL_NOT_GIVEN",
     "SQL_PARSE_ERROR", "SQL_NO_STATEMENT", "SQL_MANY_STATEMENTS"}

\* C29: proto_stmt_to_query.  When the SQL resolves and parses to exactly
\* one statement, the result is ARGS_BOTH_POSITIONAL_AND_NAMED exactly when
\* args and named_args are both non-empty, named parameters when only
\* named_args is non-empty, positional parameters otherwise.  When the SQL
\* does not resolve or does not parse to exactly one statement, the error
\* is the one of the SQL, whatever the arguments are.
ArgsAfterSql ==
    Built =>
        LET res == stmt_out.res IN
        IF SqlResolves /\ StatementParse(ResolvedText) = <<"Ok">>
        THEN /\ (~res.ok /\ res.code = "ARGS_BOTH_POSITIONAL_AND_NAMED") <=> ArgsConflict
             /\ ~ArgsConflict =>
                   /\ res.ok
                   /\ res.query.stmt = ResolvedText
                   /\ res.query.params =
                         (IF stmt_in.named_args # <<>> THEN "Named" ELSE "Positional")
                   /\ Len(res.query.values) =
                         (IF stmt_in.named_args # <<>> THEN Len(stmt_in.named_args)
                                                       ELSE Len(stmt_in.args))
                   /\ res.query.want_rows = (stmt_in.want_rows # "false")
        ELSE /\ ~res.ok
             /\ res.code \in SqlErrorCodes
             /\ SqlResolves =>
                   res.code = (IF StatementParse(ResolvedText) = <<>>
                               THEN "SQL_NO_STATEMENT"
                               ELSE IF StatementParse(ResolvedText)[1] = "Err"
                               THEN "SQL_PARSE_ERROR"
                               ELSE "SQL_MANY_STATEMENTS")

\* A statement with two SQL statements and with both args and named_args
\* was answered SQL_MANY_STATEMENTS.
ManyStmtsBeforeArgsConflict ==
    /\ Built
    /\ SqlResolves
    /\ Len(StatementParse(ResolvedText)) > 1
    /\ ArgsConflict
    /\ stmt_out.res.code = "SQL_MANY_STATEMENTS"

(***************************************************************************)
(* HRANA OVER WEBSOCKET: binary messages, pings and close frames           *)
(***************************************************************************)
\* The close frames among the messages the server has sent.
CloseFrames == {j \in 1..Len(ws_out) : ws_out[j].kind = "Close"}

\* The client messages that are protocol errors, and the close code each
\* ends the connection with.
IsProtocolError(m) ==
    \/ m.kind \in {"Binary", "BadText"}
    \/ m.kind = "Request" /\ ~m.session_before
    \/ m.kind = "Hello" /\ m.hello_res = "protocol_error"

ExpectedCloseCode(m) ==
    IF m.kind = "Binary" THEN "Unsupported"
    ELSE IF m.kind = "BadText" THEN "Invalid"
    ELSE "Policy"

\* C30: a binary message is a protocol error; a ping is answered with one
\* pong of the same payload and the connection stays open; a protocol
\* error is answered with nothing but one close frame, of code Unsupported
\* for a binary message, Invalid for text that does not decode, Policy
\* otherwise; a close frame is the only one and the last message the
\* server sends.
PingPongAndClose ==
    /\ Cardinality(CloseFrames) <= 1
    /\ \A j \in CloseFrames : j = Len(ws_out) /\ ws_conn.st = "closed"
    /\ \A i \in 1..Len(ws_log) :
          LET m == ws_log[i] IN
          /\ m.kind = "Binary" => IsProtocolError(m) /\ m.result # "continue"
          /\ m.kind = "Ping" =>
                /\ m.result = "continue"
                /\ Cardinality(RepliesTo(i)) = 1
                /\ ws_out[m.sent_before + 1] = [kind |-> "Pong", request |-> i,
                                                data |-> m.data]
                /\ CloseFrames # {} => m.sent_before + 1 < Len(ws_out)
          /\ IsProtocolError(m) =>
                /\ i = Len(ws_log)
                /\ ws_conn.st = "closed"
                /\ RepliesTo(i) = {}
                /\ Len(ws_out) = m.sent_before + 1
                /\ ws_out[Len(ws_out)] = [kind |-> "Close", request |-> 0,
                                          data |-> ExpectedCloseCode(m)]

\* A ping was answered with its payload, and a binary message then ended
\* the connection with the close code Unsupported.
BinaryAfterPingClosed ==
    /\ Len(ws_log) = 2
    /\ ws_log[1].kind = "Ping" /\ ws_log[1].data = "b"
    /\ ws_log[2].kind = "Binary"
    /\ ws_out = <<[kind |-> "Pong", request |-> 1, data |-> "b"],
                  [kind |-> "Close", request |-> 0, data |-> "Unsupported"]>>
    /\ ws_conn.st = "closed"

(***************************************************************************)
(* ALLOCATION ACTOR: inbound messages of other nodes                       *)
(***************************************************************************)
\* linc::proto::Message, the variants handle_inbound matches on.  An
\* AllocationMessage::Inbound in the mailbox is named by the variant of its
\* envelope's message; the router has set its `to` to this allocation's
\* database.
InboundMessages ==
    {"Handshake", "ReplicationHandshake", "ReplicationHandshakeResponse", "Replicate",
     "Transaction", "ProxyRequest", "ProxyResponse", "CancelRequest", "CloseConnection",
     "Error"}

\* handle_inbound: what the arm of a message does.  Every arm is `todo!()`.
HandleInbound(message) == "panic"

\* The router forwards an envelope to the mailbox of the allocation.
InboundSend ==
    /\ ~inbox.closed
    /\ inbox.sent < MaxMessages
    /\ \E message \in InboundMessages :
          inbox' = [inbox EXCEPT !.queue = Append(@, message), !.sent = @ + 1]
    /\ UNCHANGED <<actor_pc, alloc_vars, stream_vars, proxy_vars, repl_vars, worker_vars, ws_vars,
                   handshake_vars, sql_vars, expire_vars, cancel_vars, stmt_vars>>

\* Allocation::run, the recv arm with AllocationMessage::Inbound(msg):
\* handle_inbound(msg) is awaited.  When the arm of the message panics, the
\* task of Allocation::run ends and the Allocation is dropped with it: the
\* mailbox is closed with its queued messages unanswered, and dropping the
\* JoinSet connections_futs aborts every connection worker.  The abort
\* takes a worker at once when it waits at its select; a worker that is
\* running a closure (block_in_place) goes on until it next waits, so any
\* of the live workers may outlast the panic.  The finished tasks go with
\* the JoinSet.
ActorRecvInbound ==
    /\ actor_pc = "select"
    /\ inbox.queue # <<>>
    /\ Head(inbox.queue) \in InboundMessages
    /\ LET message == Head(inbox.queue)
           outcome == HandleInbound(message)
           proxy_request == IF message = "ProxyRequest" THEN 1 ELSE 0
       IN  IF outcome = "panic"
           THEN /\ actor_pc' = "panicked"
                /\ inbox' = [inbox EXCEPT !.queue = <<>>, !.closed = TRUE,
                                          !.taken = @ + proxy_request]
                /\ \E in_closure \in SUBSET LiveWorkers :
                      connections_futs' = in_closure
           ELSE /\ actor_pc' = "select"
                /\ inbox' = [inbox EXCEPT !.queue = Tail(@),
                                          !.taken = @ + proxy_request,
                                          !.answered = @ + proxy_request]
                /\ UNCHANGED connections_futs
    /\ UNCHANGED <<next_conn_id, spawned, stream_vars, proxy_vars, repl_vars, worker_vars, ws_vars,
                   handshake_vars, sql_vars, expire_vars, cancel_vars, stmt_vars>>

\* A worker that outlasted the panic of Allocation::run comes to the end
\* of its closures: at its select the task is cancelled, or run returns,
\* and the connection is dropped.
AbortedWorkerEnds ==
    /\ actor_pc = "panicked"
    /\ \E w \in LiveWorkers :
          connections_futs' = connections_futs \ {w}
    /\ UNCHANGED <<next_conn_id, spawned, actor_vars, stream_vars, proxy_vars, repl_vars,
                   worker_vars, ws_vars, handshake_vars, sql_vars, expire_vars,
                   cancel_vars, stmt_vars>>

NextInbound ==
    \/ InboxSend
    \/ InboundSend
    \/ InboxClose
    \/ ActorWorkerReturns
    \/ ActorRecv
    \/ ActorRecvInbound
    \/ AbortedWorkerEnds
    \/ ActorJoinSome
    \/ ActorJoinNone
    \/ ActorLoops

SpecInbound == InitActor /\ [][NextInbound]_vars

\* C31: every inbound ProxyRequest the actor has taken from its mailbox has
\* been answered with a ProxyResponse, and the actor is still serving its
\* mailbox.
ProxyRequestAnswered ==
    inbox.taken >= 1 =>
        /\ inbox.answered = inbox.taken
        /\ actor_pc # "panicked"

\* The panic of handle_inbound leaves no message in the mailbox and no
\* finished task to join; the workers left are those still running.
PanicDropsAllocation ==
    actor_pc = "panicked" =>
        (connections_futs = LiveWorkers /\ inbox.queue = <<>> /\ inbox.closed)

\* A connection worker is still running after Allocation::run has panicked.
WorkerOutlastsPanic ==
    actor_pc = "panicked" /\ LiveWorkers # {}

(***************************************************************************)
(* HRANA OVER WEBSOCKET: responses to requests                             *)
(***************************************************************************)
\* The responses among the messages the server has sent.
Responses == {j \in 1..Len(ws_out) : ws_out[j].kind \in {"ResponseOk", "ResponseError"}}

\* C33: a Request handed to the session gets at most one server message, a
\* ResponseOk or ResponseError with the request_id of that Request; every
\* response answers a Request that was handed to the session after a
\* successful Hello, so it carries a request_id the client sent; a Request
\* that was not handed to the session gets no response.
OneResponsePerRequest ==
    /\ \A i \in 1..Len(ws_log) :
          /\ Cardinality(RepliesTo(i) \cap Responses) <= 1
          /\ ws_log[i].handed =>
                /\ ws_log[i].kind = "Request"
                /\ Cardinality(RepliesTo(i)) <= 1
                /\ \A j \in RepliesTo(i) :
                      j \in Responses /\ ws_out[j].data = ws_log[i].data
          /\ ~ws_log[i].handed => RepliesTo(i) \cap Responses = {}
    /\ \A j \in Responses :
          /\ ws_out[j].request \in 1..Len(ws_log)
          /\ ws_log[ws_out[j].request].handed
          /\ ws_out[j].data \in {ws_log[i].data : i \in {k \in 1..Len(ws_log) :
                                                          ws_log[k].kind = "Request"}}
          /\ \E h \in 1..(ws_out[j].request - 1) :
                ws_log[h].kind = "Hello" /\ ws_log[h].hello_res = "ok"

\* Two requests with different request_ids were answered, the later one
\* first.
AnsweredOutOfOrder ==
    \E j1, j2 \in Responses :
        /\ j1 < j2
        /\ ws_out[j1].request > ws_out[j2].request
        /\ ws_out[j1].data = ws_log[ws_out[j1].request].data
        /\ ws_out[j2].data = ws_log[ws_out[j2].request].data
        /\ ws_out[j1].data # ws_out[j2].data

(***************************************************************************)
(* HRANA OVER WEBSOCKET: the end of handle_ws                              *)
(***************************************************************************)
\* ResponseFuture::poll when the receiver gives Err(_recv_err): the sender
\* was dropped without a result.  The future is Pending, now and at every
\* later poll.
PollDroppedSender == "Pending"

\* The responses conn.responses still waits for whose subtask has not
\* ended.
RunningSubtasks == ws_conn.responses \ ws_conn.dropped

\* The subtask evaluating a request ends without sending a result: the
\* sender of the response is dropped.
WsSenderDropped ==
    /\ ws_conn.st = "open"
    /\ \E n \in RunningSubtasks :
          ws_conn' = [ws_conn EXCEPT !.dropped = @ \cup {n}]
    /\ UNCHANGED <<ws_out, ws_log, alloc_vars, stream_vars, proxy_vars, repl_vars, worker_vars,
                   actor_vars, handshake_vars, sql_vars, expire_vars, cancel_vars,
                   stmt_vars>>

\* The client's WebSocket stream ends: conn.ws.recv() gives None from now
\* on and the recv arm of the select is disabled.
WsStreamEnds ==
    /\ ws_conn.st = "open"
    /\ ws_conn.stream = "open"
    /\ ws_conn' = [ws_conn EXCEPT !.stream = "ended"]
    /\ UNCHANGED <<ws_out, ws_log, alloc_vars, stream_vars, proxy_vars, repl_vars, worker_vars,
                   actor_vars, handshake_vars, sql_vars, expire_vars, cancel_vars,
                   stmt_vars>>

\* handle_ws, `else => break`: every arm of the select is disabled, the
\* stream has ended, the JoinSet is empty and conn.responses is empty.  A
\* future of conn.responses that is Pending keeps its arm enabled.  After
\* the loop the connection is closed with CloseCode::Normal.
WsElseBreak ==
    /\ ws_conn.st = "open"
    /\ ws_conn.stream = "ended"
    /\ RunningSubtasks = {}
    /\ \/ ws_conn.responses = {}
       \/ ws_conn.responses # {} /\ PollDroppedSender # "Pending"
    /\ ws_out' = Close(ws_conn.close_code # "none", ws_out, CloseCodeOf("break"))
    /\ ws_conn' = [ws_conn EXCEPT !.st = "closed", !.close_code = CloseCodeOf("break"),
                                  !.responses = {}]
    /\ UNCHANGED <<ws_log, alloc_vars, stream_vars, proxy_vars, repl_vars, worker_vars,
                   actor_vars, handshake_vars, sql_vars, expire_vars, cancel_vars,
                   stmt_vars>>

NextWsLive ==
    \/ WsRecv
    \/ WsRespond
    \/ WsSenderDropped
    \/ WsStreamEnds
    \/ WsElseBreak

\* The task of handle_ws is scheduled as long as an arm of its select is
\* ready.
SpecWsLive ==
    InitWs /\ [][NextWsLive]_vars /\ WF_vars(WsElseBreak) /\ WF_vars(WsRespond)

\* C34: once the client's stream has ended and every subtask of the
\* connection has finished, handle_ws eventually returns, also when the
\* sender of an outstanding response was dropped.
HandleWsReturns ==
    (ws_conn.stream = "ended" /\ RunningSubtasks = {}) ~> (ws_conn.st = "closed")

(***************************************************************************)
(* ACQUIRE WITH A PRESENTED BATON: what a failed acquire leaves behind     *)
(***************************************************************************)
\* A step in which a handle_pipeline call is answered with a stream error.
AcquireFails ==
    /\ calls' = calls + 1
    /\ \E p \in PipelineIds :
          /\ pipelines'[p] # pipelines[p]
          /\ pipelines'[p].resp.kind = "stream_error"
          /\ pipelines'[p].resp.err \in {"BatonInvalid", "BatonExpired", "BatonReused"}

\* C35: a failed acquire leaves the registry as it was: no stream is
\* created, removed or checked out, no sequence number moves, no connection
\* is allocated or occupied, no baton counts as used, and a stream that was
\* idle stays idle under the same sequence number, so its current baton
\* still acquires it.
FailedAcquireChangesNothing ==
    [][AcquireFails =>
          /\ streams' = streams
          /\ conn_busy' = conn_busy
          /\ acquired_batons' = acquired_batons
          /\ UNCHANGED alloc_vars
          /\ \A sid \in StreamIds :
                /\ (streams[sid].st = "absent") = (streams'[sid].st = "absent")
                /\ streams[sid].st = "idle" =>
                      /\ streams'[sid].st = "idle"
                      /\ streams'[sid].seq = streams[sid].seq
                      /\ streams'[sid].conn = streams[sid].conn]_vars

\* A minted baton of an earlier sequence number was answered BatonReused,
\* and the stream is idle under its sequence number, its current baton
\* acquiring it.
StaleBatonRejectedStreamIdle ==
    \E p \in PipelineIds :
        LET pl == pipelines[p] IN
        /\ pl.pc = "done"
        /\ pl.resp.err = "BatonReused"
        /\ pl.baton = Baton(pl.sid, pl.baton.seq)
        /\ streams[pl.sid].st = "idle"
        /\ streams[pl.sid].seq = pl.seq0
        /\ pl.baton.seq # pl.seq0
        /\ AcquireCheck(Baton(pl.sid, streams[pl.sid].seq)) = "ok"

====
